---------------------------- MODULE Spec2Model ----------------------------
(***************************************************************************)
(* A model of doublethe.fun: the double-pendulum simulator                 *)
(* (PendulumSimulator, createPendulums), the fragment shader that          *)
(* evaluates the chaos field per pixel, and the DoublePendulum component   *)
(* that drives the simulator from requestAnimationFrame.                   *)
(*                                                                         *)
(* Numbers.  The programs compute on IEEE floats.  The model computes in   *)
(* the exact arithmetic of the prime field of FieldOrder elements, plus    *)
(* one non-finite value NaN that a division by zero produces and that      *)
(* every operation propagates.  The field laws are the laws of real        *)
(* arithmetic that the simulator's algebra relies on, so two expressions   *)
(* that are algebraically equal evaluate equally, and two that are not     *)
(* differ on some input.  sin and cos are their Taylor polynomials         *)
(* evaluated in the field.  Quantities that the code compares or floors    *)
(* (timestamps, step counts, pixel coordinates) are integers in a stated   *)
(* unit.                                                                   *)
(***************************************************************************)
EXTENDS Integers, Sequences, FiniteSets, TLC

VARIABLES
  \* The simulator on its own (SpecSim): one PendulumSimulator, the shader's
  \* pair and the pre-class rk4 pair, all built from the same arguments.
  ctor,             \* the construction arguments
  simulator,        \* the PendulumSimulator object
  stepCalls,        \* step() calls made on it
  gpuPair,          \* the shader's PendulumPair for the same arguments
  gpuSteps,         \* simulateTimeStep calls made on it
  legacyPendulums,  \* pendulumsRef.current of the pre-class DoublePendulum
  legacySteps,      \* rk4 calls made on it
  \* The DoublePendulum component (SpecAnim).
  props,              \* startingAngles, lengths, masses, gravity
  effectPending,      \* the props changed and the effect has not run yet
  mounted,            \* the effect has run once, its cleanup is registered
  simulatorRef,       \* << >> for null, << simulator >> otherwise
  lastTimestampRef,   \* Null or a timestamp
  animationFrameRef,  \* Null or a requestAnimationFrame handle
  animationFrames,    \* the browser's pending animation frame callbacks
  nextHandle,         \* the handle the next requestAnimationFrame returns
  now,                \* the timestamp of the latest frame
  pendulumsState,     \* useState's pendulums: << >> or << getState() >>
  \* Observations of the component, read by the properties only.
  generation,         \* simulators constructed so far
  committedProps,     \* the props the latest simulator was built from
  previousFrame,      \* timestamp of the previous frame of this run, or Null
  runBaseline,        \* timestamp of the first frame of this run, or Null
  runCalls,           \* step() calls on the current simulator
  lastCall,           \* the latest call of animate
  frameCount,         \* calls of animate so far
  changeCount,        \* changes of the props so far
  \* The canvas and the fragment shader (SpecField).
  fullUniforms,       \* the ShaderUniforms the canvas renders
  lowResScaleFactor,  \* the Dynamic Resolution setting
  devicePixelRatio,   \* window.devicePixelRatio
  glUniforms,         \* the uniforms set on the program
  canvas,             \* the drawing buffer: canvas.width, canvas.height
  viewport,           \* gl.viewport's width and height
  drawn,              \* the latest render: "none", "low" or "full"
  frag,               \* the invocation of main() under way
  \* The PendulumAudio component (SpecAudio).
  audioProps,         \* startingAngles, lengths, masses, gravity
  audioEffect,        \* "pending", "done", or "removed" once unmounted
  audioSimulatorRef,  \* 0 for null, or the number of a simulator
  audioContextRef,    \* 0 for null, or the number of an AudioContext
  gainRef,            \* << >> for null, or << gain node >>
  isMuted,            \* useState: the mute preference
  isStatic,           \* useState: the latest chunk found no loop
  audioSimulators,    \* the simulators constructed, by number
  audioContexts,      \* the AudioContexts constructed, by number
  audioTasks,         \* the calls of playAudioChunk, by number
  audioTimers,        \* the tasks whose 10 ms timeout is running, oldest first
  audioChanges,       \* changes of the props so far
  localStorage,       \* << >>, or << the item "muted" >>
  muteToggles,        \* clicks on the mute button so far
  \* The objects of the two simulators (SpecHeap).
  heap,               \* the PendulumPair objects allocated, by reference
  heapProps,          \* the props both components were given
  animationSimulator, \* << >>, or << DoublePendulum's simulator >>
  audioSimulator,     \* << >>, or << PendulumAudio's simulator >>
  snapshots,          \* the pairs that step() and getState() returned
  heapSteps,          \* step() calls on the two simulators
  \* The page (SpecPage).
  searchParams,       \* the query of the URL the page was loaded from
  inputUniforms,      \* Visualizer's useState: uniforms
  canvasSize,         \* PendulumCanvas's useState: size
  canvasCenter,       \* PendulumCanvas's useState: center
  clickedAngles,      \* PendulumCanvas's useState: << >> for null
  inputValues,        \* each Slider's useState: inputValue
  canvasEffect,       \* "pending" until the canvas parameters effect ran
  appCrashed,         \* a render threw; nothing is mounted
  clipboard,          \* << >>, or << the query of the URL copied >>
  sharedState,        \* << >>, or << the state handleShare read >>
  editCount,          \* slider moves and texts typed so far
  \* The samples of an audio chunk (SpecSample).
  chunkStates,        \* generateAudioChunk's states: the two angles of each
  chunkLeft,          \* << >>, or << left >>
  chunkRight,         \* << >>, or << right >>
  \* One call of generateAudioChunk (SpecSearch).
  searchOrbit,  \* the orbit of the simulator that simulatorRef holds
  generator,    \* the call: its position, its locals and its step() calls
  \* The canvas under the mouse (SpecPointer).
  sizeState,        \* useState: size
  centerState,      \* useState: center
  isDragging,       \* useState: isDragging
  wasDragged,       \* useState: wasDragged
  lastMousePos,     \* useState: lastMousePos
  droppedAngles,    \* useState: clickedAngles, << >> for null
  listeners,        \* the state that the attached handlers closed over
  pointer,          \* where the mouse is
  leftButton,       \* the left button: "up" or "down"
  movedSincePress,  \* handleMouseMove panned since the latest press
  pannedWhileUp,    \* handleMouseMove panned while the button was up
  lastWheel,        \* << >>, or << the latest wheel event, as observed >>
  lastRelease,      \* << >>, or << the latest release on the canvas >>
  pointerEvents,    \* mouse events so far
  \* The canvas's scheduled renders (SpecRender).
  uniformsVersion,       \* the changes of fullUniforms (or lowResScaleFactor) so far
  canvasFrameRef,        \* animationFrameRef.current: 0 for null, or a handle
  fullRenderTimeoutRef,  \* fullRenderTimeoutRef.current: 0 for null, or an id
  frameCallbacks,        \* the animation frame callbacks requested, oldest first
  renderTimeouts,        \* the timeouts of 250 ms that are running
  nextRenderId,          \* the next handle or timeout id
  glProgram,             \* the uniforms set on the program: kind and version
  lastRender,            \* what the latest render() drew
  lowDone,               \* the versions that a low-resolution render has drawn
  staleRan,              \* a render for an earlier version has run
  fullBeforeLow          \* a full-resolution render ran before the low one

simVars ==
  << ctor, simulator, stepCalls, gpuPair, gpuSteps, legacyPendulums,
     legacySteps >>

animVars ==
  << props, effectPending, mounted, simulatorRef, lastTimestampRef,
     animationFrameRef, animationFrames, nextHandle, now,
     pendulumsState, generation, committedProps, previousFrame, runBaseline, runCalls,
     lastCall, frameCount, changeCount >>

fieldVars ==
  << fullUniforms, lowResScaleFactor, devicePixelRatio, glUniforms, canvas,
     viewport, drawn, frag >>

audioVars ==
  << audioProps, audioEffect, audioSimulatorRef, audioContextRef, gainRef,
     isMuted, isStatic, audioSimulators, audioContexts, audioTasks,
     audioTimers, audioChanges, localStorage, muteToggles >>

heapVars ==
  << heap, heapProps, animationSimulator, audioSimulator, snapshots,
     heapSteps >>

pageVars ==
  << searchParams, inputUniforms, canvasSize, canvasCenter, clickedAngles,
     inputValues, canvasEffect, appCrashed, clipboard, sharedState,
     editCount >>

sampleVars == << chunkStates, chunkLeft, chunkRight >>

searchVars ==
  << searchOrbit, generator >>

pointerVars ==
  << sizeState, centerState, isDragging, wasDragged, lastMousePos,
     droppedAngles, listeners, pointer, leftButton, movedSincePress,
     pannedWhileUp, lastWheel, lastRelease, pointerEvents >>

renderVars ==
  << uniformsVersion, canvasFrameRef, fullRenderTimeoutRef, frameCallbacks,
     renderTimeouts, nextRenderId, glProgram, lastRender, lowDone, staleRan,
     fullBeforeLow >>

vars ==
  << simVars, animVars, fieldVars, audioVars, heapVars, pageVars,
     sampleVars, searchVars, pointerVars, renderVars >>

\* What each specification leaves alone.
exceptSim ==
  << animVars, fieldVars, audioVars, heapVars, pageVars, sampleVars,
     searchVars, pointerVars, renderVars >>

exceptAnim ==
  << simVars, fieldVars, audioVars, heapVars, pageVars, sampleVars,
     searchVars, pointerVars, renderVars >>

exceptField ==
  << simVars, animVars, audioVars, heapVars, pageVars, sampleVars,
     searchVars, pointerVars, renderVars >>

exceptAudio ==
  << simVars, animVars, fieldVars, heapVars, pageVars, sampleVars,
     searchVars, pointerVars, renderVars >>

exceptHeap ==
  << simVars, animVars, fieldVars, audioVars, pageVars, sampleVars,
     searchVars, pointerVars, renderVars >>

exceptPage ==
  << simVars, animVars, fieldVars, audioVars, heapVars, sampleVars,
     searchVars, pointerVars, renderVars >>

exceptSample ==
  << simVars, animVars, fieldVars, audioVars, heapVars, pageVars,
     searchVars, pointerVars, renderVars >>

exceptSearch ==
  << simVars, animVars, fieldVars, audioVars, heapVars, pageVars,
     sampleVars, pointerVars, renderVars >>

exceptPointer ==
  << simVars, animVars, fieldVars, audioVars, heapVars, pageVars,
     sampleVars, searchVars, renderVars >>

exceptRender ==
  << simVars, animVars, fieldVars, audioVars, heapVars, pageVars,
     sampleVars, searchVars, pointerVars >>

\* The variables of the simulators while another specification runs.
SimIdle ==
  /\ ctor = << >>
  /\ simulator = << >>
  /\ stepCalls = 0
  /\ gpuPair = << >>
  /\ gpuSteps = 0
  /\ legacyPendulums = << >>
  /\ legacySteps = 0

\* The variables of the canvas while another specification runs.
FieldIdle ==
  /\ fullUniforms = << >>
  /\ lowResScaleFactor = 0
  /\ devicePixelRatio = << >>
  /\ glUniforms = << >>
  /\ canvas = << >>
  /\ viewport = << >>
  /\ drawn = "none"
  /\ frag = << >>

\* The variables of the component while another specification runs.
AnimIdle ==
  /\ props = << >>
  /\ effectPending = FALSE
  /\ mounted = FALSE
  /\ simulatorRef = << >>
  /\ lastTimestampRef = 0
  /\ animationFrameRef = 0
  /\ animationFrames = {}
  /\ nextHandle = 0
  /\ now = 0
  /\ pendulumsState = << >>
  /\ generation = 0
  /\ committedProps = << >>
  /\ previousFrame = 0
  /\ runBaseline = 0
  /\ runCalls = 0
  /\ lastCall = << >>
  /\ frameCount = 0
  /\ changeCount = 0

\* The variables of the audio component while another specification runs.
AudioIdle ==
  /\ audioProps = << >>
  /\ audioEffect = "removed"
  /\ audioSimulatorRef = 0
  /\ audioContextRef = 0
  /\ gainRef = << >>
  /\ isMuted = FALSE
  /\ isStatic = FALSE
  /\ audioSimulators = << >>
  /\ audioContexts = << >>
  /\ audioTasks = << >>
  /\ audioTimers = << >>
  /\ audioChanges = 0
  /\ localStorage = << >>
  /\ muteToggles = 0

\* The variables of the objects while another specification runs.
HeapIdle ==
  /\ heap = << >>
  /\ heapProps = << >>
  /\ animationSimulator = << >>
  /\ audioSimulator = << >>
  /\ snapshots = << >>
  /\ heapSteps = << 0, 0 >>

\* The variables of the page while another specification runs.
PageIdle ==
  /\ searchParams = << >>
  /\ inputUniforms = << >>
  /\ canvasSize = << >>
  /\ canvasCenter = << >>
  /\ clickedAngles = << >>
  /\ inputValues = << >>
  /\ canvasEffect = "done"
  /\ appCrashed = FALSE
  /\ clipboard = << >>
  /\ sharedState = << >>
  /\ editCount = 0

\* The variables of the chunk while another specification runs.
SampleIdle ==
  /\ chunkStates = << >>
  /\ chunkLeft = << >>
  /\ chunkRight = << >>

\* The variables of the search while another specification runs.
SearchIdle ==
  /\ searchOrbit = << >>
  /\ generator = << >>

\* The variables of the mouse while another specification runs.
PointerIdle ==
  /\ sizeState = << >>
  /\ centerState = << >>
  /\ isDragging = FALSE
  /\ wasDragged = FALSE
  /\ lastMousePos = << >>
  /\ droppedAngles = << >>
  /\ listeners = << >>
  /\ pointer = << >>
  /\ leftButton = "up"
  /\ movedSincePress = FALSE
  /\ pannedWhileUp = FALSE
  /\ lastWheel = << >>
  /\ lastRelease = << >>
  /\ pointerEvents = 0

\* The variables of the renders while another specification runs.
RenderIdle ==
  /\ uniformsVersion = 0
  /\ canvasFrameRef = 0
  /\ fullRenderTimeoutRef = 0
  /\ frameCallbacks = << >>
  /\ renderTimeouts = {}
  /\ nextRenderId = 0
  /\ glProgram = << >>
  /\ lastRender = << >>
  /\ lowDone = {}
  /\ staleRan = FALSE
  /\ fullBeforeLow = FALSE

IdleExceptSim ==
  AnimIdle /\ FieldIdle /\ AudioIdle /\ HeapIdle /\ PageIdle /\ SampleIdle
  /\ SearchIdle /\ PointerIdle /\ RenderIdle

IdleExceptAnim ==
  SimIdle /\ FieldIdle /\ AudioIdle /\ HeapIdle /\ PageIdle /\ SampleIdle /\
  SearchIdle /\ PointerIdle /\ RenderIdle

IdleExceptField ==
  SimIdle /\ AnimIdle /\ AudioIdle /\ HeapIdle /\ PageIdle /\ SampleIdle /\
  SearchIdle /\ PointerIdle /\ RenderIdle

IdleExceptAudio ==
  SimIdle /\ AnimIdle /\ FieldIdle /\ HeapIdle /\ PageIdle /\ SampleIdle /\
  SearchIdle /\ PointerIdle /\ RenderIdle

IdleExceptHeap ==
  SimIdle /\ AnimIdle /\ FieldIdle /\ AudioIdle /\ PageIdle /\ SampleIdle /\
  SearchIdle /\ PointerIdle /\ RenderIdle

IdleExceptPage ==
  SimIdle /\ AnimIdle /\ FieldIdle /\ AudioIdle /\ HeapIdle /\ SampleIdle /\
  SearchIdle /\ PointerIdle /\ RenderIdle

IdleExceptSample ==
  SimIdle /\ AnimIdle /\ FieldIdle /\ AudioIdle /\ HeapIdle /\ PageIdle /\
  SearchIdle /\ PointerIdle /\ RenderIdle

IdleExceptSearch ==
  SimIdle /\ AnimIdle /\ FieldIdle /\ AudioIdle /\ HeapIdle /\ PageIdle /\
  SampleIdle /\ PointerIdle /\ RenderIdle

IdleExceptPointer ==
  SimIdle /\ AnimIdle /\ FieldIdle /\ AudioIdle /\ HeapIdle /\ PageIdle /\
  SampleIdle /\ SearchIdle /\ RenderIdle

IdleExceptRender ==
  SimIdle /\ AnimIdle /\ FieldIdle /\ AudioIdle /\ HeapIdle /\ PageIdle /\
  SampleIdle /\ SearchIdle /\ PointerIdle

(***************************************************************************)
(* The number model                                                        *)
(***************************************************************************)
FieldOrder == 1009

NaN == -1

Finite == 0 .. (FieldOrder - 1)

Num == Finite \cup {NaN}

Add(a, b) == IF a = NaN \/ b = NaN THEN NaN ELSE (a + b) % FieldOrder

Sub(a, b) == IF a = NaN \/ b = NaN THEN NaN ELSE (a - b) % FieldOrder

Mul(a, b) == IF a = NaN \/ b = NaN THEN NaN ELSE (a * b) % FieldOrder

\* x^n in the field, by repeated squaring.
RECURSIVE Pow(_, _)
Pow(x, n) ==
  IF n = 0 THEN 1
  ELSE IF n % 2 = 0 THEN Pow((x * x) % FieldOrder, n \div 2)
  ELSE (x * Pow((x * x) % FieldOrder, n \div 2)) % FieldOrder

\* 1/x for x # 0: x^(FieldOrder - 2).
Inv(x) == Pow(x, FieldOrder - 2)

\* x / 0 is Infinity or NaN in the code; both are the model's NaN.
Div(a, b) ==
  IF a = NaN \/ b = NaN \/ b = 0 THEN NaN ELSE (a * Inv(b)) % FieldOrder

Neg(a) == Sub(0, a)

\* The literal n (an integer, possibly negative) and the decimal n/d.
Lit(n) == n % FieldOrder

Q(n, d) == Div(Lit(n), Lit(d))

\* Math.sin / sin(): x - x^3/6 + x^5/120.
Sin(x) ==
  LET x2 == Mul(x, x)
      x3 == Mul(x2, x)
      x5 == Mul(x3, x2)
  IN  Add(Sub(x, Div(x3, Lit(6))), Div(x5, Lit(120)))

\* Math.cos / cos(): 1 - x^2/2 + x^4/24.
Cos(x) ==
  LET x2 == Mul(x, x)
      x4 == Mul(x2, x2)
  IN  Add(Sub(Lit(1), Div(x2, Lit(2))), Div(x4, Lit(24)))

(***************************************************************************)
(* pendulumSimulation: createPendulums and PendulumSimulator               *)
(***************************************************************************)
Pendulum(angle, momentum, length, mass) ==
  [angle |-> angle, momentum |-> momentum, length |-> length, mass |-> mass]

\* Faulty variant: the second link is built with the first link's length.
createPendulumsReusedLength(startingAngles, lengths, masses) ==
  << Pendulum(startingAngles[1], 0, lengths[1], masses[1]),
     Pendulum(startingAngles[2], 0, lengths[1], masses[2]) >>

createPendulums(startingAngles, lengths, masses) ==
  << Pendulum(startingAngles[1], 0, lengths[1], masses[1]),
     Pendulum(startingAngles[2], 0, lengths[2], masses[2]) >>

\* Faulty variant: dAngle1 loses the factor pendulums[1].momentum of its
\* second term.
derivativeDroppedFactor(pendulums, gravity) ==
  LET p1 == pendulums[1]
      p2 == pendulums[2]
      cosDiff == Cos(Sub(p1.angle, p2.angle))
      sinDiff == Sin(Sub(p1.angle, p2.angle))
      denom == Sub(Lit(16), Mul(Mul(Lit(9), cosDiff), cosDiff))
      dAngle1 ==
        Div(Mul(Div(Lit(6), Mul(Mul(p1.mass, p1.length), p1.length)),
                Sub(Mul(Lit(2), p1.momentum), Mul(Lit(3), cosDiff))),
            denom)
      dAngle2 ==
        Div(Mul(Div(Lit(6), Mul(Mul(p2.mass, p2.length), p2.length)),
                Sub(Mul(Lit(8), p2.momentum),
                    Mul(Mul(Lit(3), cosDiff), p1.momentum))),
            denom)
      dMomentum1 ==
        Mul(Div(Mul(Mul(p1.mass, p1.length), p1.length), Lit(-2)),
            Add(Mul(Mul(dAngle1, dAngle2), sinDiff),
                Mul(Div(Mul(Lit(3), gravity), p1.length), Sin(p1.angle))))
      dMomentum2 ==
        Mul(Div(Mul(Mul(p2.mass, p2.length), p2.length), Lit(-2)),
            Add(Mul(Mul(Neg(dAngle1), dAngle2), sinDiff),
                Mul(Div(Mul(Lit(3), gravity), p2.length), Sin(p2.angle))))
  IN  << dAngle1, dAngle2, dMomentum1, dMomentum2 >>

\* PendulumSimulator.derivative: <<dAngle1, dAngle2, dMomentum1, dMomentum2>>.
derivative(pendulums, gravity) ==
  LET p1 == pendulums[1]
      p2 == pendulums[2]
      cosDiff == Cos(Sub(p1.angle, p2.angle))
      sinDiff == Sin(Sub(p1.angle, p2.angle))
      denom == Sub(Lit(16), Mul(Mul(Lit(9), cosDiff), cosDiff))
      dAngle1 ==
        Div(Mul(Div(Lit(6), Mul(Mul(p1.mass, p1.length), p1.length)),
                Sub(Mul(Lit(2), p1.momentum),
                    Mul(Mul(Lit(3), cosDiff), p2.momentum))),
            denom)
      dAngle2 ==
        Div(Mul(Div(Lit(6), Mul(Mul(p2.mass, p2.length), p2.length)),
                Sub(Mul(Lit(8), p2.momentum),
                    Mul(Mul(Lit(3), cosDiff), p1.momentum))),
            denom)
      dMomentum1 ==
        Mul(Div(Mul(Mul(p1.mass, p1.length), p1.length), Lit(-2)),
            Add(Mul(Mul(dAngle1, dAngle2), sinDiff),
                Mul(Div(Mul(Lit(3), gravity), p1.length), Sin(p1.angle))))
      dMomentum2 ==
        Mul(Div(Mul(Mul(p2.mass, p2.length), p2.length), Lit(-2)),
            Add(Mul(Mul(Neg(dAngle1), dAngle2), sinDiff),
                Mul(Div(Mul(Lit(3), gravity), p2.length), Sin(p2.angle))))
  IN  << dAngle1, dAngle2, dMomentum1, dMomentum2 >>

\* { ...pendulum, angle: a, momentum: p }
Spread(pendulum, a, p) == [pendulum EXCEPT !.angle = a, !.momentum = p]

\* Faulty variant: the half stage advances the first link only and evaluates
\* the derivative with the second link's unmodified angle and momentum.
halfStageStaleLink(pendulums, k, timeStep) ==
  LET ka1 == Add(pendulums[1].angle, Div(Mul(k[1], timeStep), Lit(2)))
      kp1 == Add(pendulums[1].momentum, Div(Mul(k[3], timeStep), Lit(2)))
  IN  << Spread(pendulums[1], ka1, kp1), pendulums[2] >>

\* step(), a half stage: the pair k2pendulums (k3pendulums) that the second
\* (third) derivative is taken at, from the previous stage's derivative k.
halfStage(pendulums, k, timeStep) ==
  LET ka1 == Add(pendulums[1].angle, Div(Mul(k[1], timeStep), Lit(2)))
      ka2 == Add(pendulums[2].angle, Div(Mul(k[2], timeStep), Lit(2)))
      kp1 == Add(pendulums[1].momentum, Div(Mul(k[3], timeStep), Lit(2)))
      kp2 == Add(pendulums[2].momentum, Div(Mul(k[4], timeStep), Lit(2)))
  IN  << Spread(pendulums[1], ka1, kp1), Spread(pendulums[2], ka2, kp2) >>

\* step(), the full stage: the pair k4pendulums.
fullStage(pendulums, k, timeStep) ==
  LET k4a1 == Add(pendulums[1].angle, Mul(k[1], timeStep))
      k4a2 == Add(pendulums[2].angle, Mul(k[2], timeStep))
      k4p1 == Add(pendulums[1].momentum, Mul(k[3], timeStep))
      k4p2 == Add(pendulums[2].momentum, Mul(k[4], timeStep))
  IN  << Spread(pendulums[1], k4a1, k4p1), Spread(pendulums[2], k4a2, k4p2) >>

\* Faulty variant: the second link's new state is written over a copy of the
\* first link's object.
assignPendulumsSharedLink(pendulums, k1, k2, k3, k4, timeStep) ==
  LET Weighted(i) ==
        Add(Add(Add(k1[i], Mul(Lit(2), k2[i])), Mul(Lit(2), k3[i])), k4[i])
      Update(x, i) == Add(x, Div(Mul(Weighted(i), timeStep), Lit(6)))
  IN  << [pendulums[1] EXCEPT !.angle = Update(pendulums[1].angle, 1),
                              !.momentum = Update(pendulums[1].momentum, 3)],
         [pendulums[1] EXCEPT !.angle = Update(pendulums[2].angle, 2),
                              !.momentum = Update(pendulums[2].momentum, 4)] >>

\* step(), the four assignments to this.pendulums[i].angle and .momentum.
assignPendulums(pendulums, k1, k2, k3, k4, timeStep) ==
  LET Weighted(i) ==
        Add(Add(Add(k1[i], Mul(Lit(2), k2[i])), Mul(Lit(2), k3[i])), k4[i])
      Update(x, i) == Add(x, Div(Mul(Weighted(i), timeStep), Lit(6)))
  IN  << [pendulums[1] EXCEPT !.angle = Update(pendulums[1].angle, 1),
                              !.momentum = Update(pendulums[1].momentum, 3)],
         [pendulums[2] EXCEPT !.angle = Update(pendulums[2].angle, 2),
                              !.momentum = Update(pendulums[2].momentum, 4)] >>

\* The pair that PendulumSimulator.step() leaves in this.pendulums.
stepPendulums(pendulums, timeStep, gravity) ==
  LET k1 == derivative(pendulums, gravity)
      k2pendulums == halfStage(pendulums, k1, timeStep)
      k2 == derivative(k2pendulums, gravity)
      k3pendulums == halfStage(pendulums, k2, timeStep)
      k3 == derivative(k3pendulums, gravity)
      k4pendulums == fullStage(pendulums, k3, timeStep)
      k4 == derivative(k4pendulums, gravity)
  IN  assignPendulums(pendulums, k1, k2, k3, k4, timeStep)

\* PendulumSimulator.getState(): JSON.parse(JSON.stringify(pendulums)).
\* JSON has no NaN or Infinity: JSON.stringify writes them as null.
Null == -2

jsonNumber(x) == IF x = NaN THEN Null ELSE x

getState(pendulums) ==
  [i \in 1 .. 2 |->
     [angle |-> jsonNumber(pendulums[i].angle),
      momentum |-> jsonNumber(pendulums[i].momentum),
      length |-> jsonNumber(pendulums[i].length),
      mass |-> jsonNumber(pendulums[i].mass)]]

\* new PendulumSimulator(timeStep, pendulums, gravity)
PendulumSimulator(timeStep, pendulums, gravity) ==
  [timeStep |-> timeStep, pendulums |-> pendulums, gravity |-> gravity]

\* simulator.step(): the simulator afterwards.
step(sim) ==
  [sim EXCEPT
     !.pendulums = stepPendulums(sim.pendulums, sim.timeStep, sim.gravity)]

(***************************************************************************)
(* DoublePendulum.tsx before the simulator class: deriviative and rk4      *)
(***************************************************************************)
deriviative(pendulums, gravity) ==
  LET p1 == pendulums[1]
      p2 == pendulums[2]
      cos12 == Cos(Sub(p1.angle, p2.angle))
      sin12 == Sin(Sub(p1.angle, p2.angle))
      da1 ==
        Div(Mul(Div(Lit(6), Mul(Mul(p1.mass, p1.length), p1.length)),
                Sub(Mul(Lit(2), p1.momentum),
                    Mul(Mul(Lit(3), cos12), p2.momentum))),
            Sub(Lit(16), Mul(Mul(Lit(9), cos12), cos12)))
      da2 ==
        Div(Mul(Div(Lit(6), Mul(Mul(p2.mass, p2.length), p2.length)),
                Sub(Mul(Lit(8), p2.momentum),
                    Mul(Mul(Lit(3), cos12), p1.momentum))),
            Sub(Lit(16), Mul(Mul(Lit(9), cos12), cos12)))
      dp1 ==
        Mul(Div(Mul(Mul(p1.mass, p1.length), p1.length), Lit(-2)),
            Add(Mul(Mul(da1, da2), sin12),
                Mul(Div(Mul(Lit(3), gravity), p1.length), Sin(p1.angle))))
      dp2 ==
        Mul(Div(Mul(Mul(p2.mass, p2.length), p2.length), Lit(-2)),
            Add(Mul(Mul(Neg(da1), da2), sin12),
                Mul(Div(Mul(Lit(3), gravity), p2.length), Sin(p2.angle))))
  IN  << da1, da2, dp1, dp2 >>

\* rk4, a half stage: k2pendulums (k3pendulums) from the derivative k.
rk4HalfStage(pendulums, k, dt) ==
  LET ka1 == Add(pendulums[1].angle, Div(Mul(k[1], dt), Lit(2)))
      ka2 == Add(pendulums[2].angle, Div(Mul(k[2], dt), Lit(2)))
      kp1 == Add(pendulums[1].momentum, Div(Mul(k[3], dt), Lit(2)))
      kp2 == Add(pendulums[2].momentum, Div(Mul(k[4], dt), Lit(2)))
  IN  << Spread(pendulums[1], ka1, kp1), Spread(pendulums[2], ka2, kp2) >>

\* rk4, the full stage: k4pendulums.
rk4FullStage(pendulums, k, dt) ==
  LET k4a1 == Add(pendulums[1].angle, Mul(k[1], dt))
      k4a2 == Add(pendulums[2].angle, Mul(k[2], dt))
      k4p1 == Add(pendulums[1].momentum, Mul(k[3], dt))
      k4p2 == Add(pendulums[2].momentum, Mul(k[4], dt))
  IN  << Spread(pendulums[1], k4a1, k4p1), Spread(pendulums[2], k4a2, k4p2) >>

\* rk4, the pair returned.
rk4Result(pendulums, k1, k2, k3, k4, dt) ==
  LET Sum(i) ==
        Add(Add(Add(k1[i], Mul(Lit(2), k2[i])), Mul(Lit(2), k3[i])), k4[i])
      Update(x, i) == Add(x, Div(Mul(Sum(i), dt), Lit(6)))
  IN  << Spread(pendulums[1], Update(pendulums[1].angle, 1),
                Update(pendulums[1].momentum, 3)),
         Spread(pendulums[2], Update(pendulums[2].angle, 2),
                Update(pendulums[2].momentum, 4)) >>

rk4(pendulums, gravity, dt) ==
  LET k1 == deriviative(pendulums, gravity)
      k2pendulums == rk4HalfStage(pendulums, k1, dt)
      k2 == deriviative(k2pendulums, gravity)
      k3pendulums == rk4HalfStage(pendulums, k2, dt)
      k3 == deriviative(k3pendulums, gravity)
      k4pendulums == rk4FullStage(pendulums, k3, dt)
      k4 == deriviative(k4pendulums, gravity)
  IN  rk4Result(pendulums, k1, k2, k3, k4, dt)

(***************************************************************************)
(* shader.frag: a pendulum is a vec4 <<length, mass, angle, momentum>>     *)
(***************************************************************************)
\* const float TIME_STEP = 0.03
TIME_STEP == Q(3, 100)

\* const float EPSILON = 0.0001
EPSILON == Q(1, 10000)

\* PendulumPair pendulums(vec2 angles), reading u_pendulum_lengths and
\* u_pendulum_masses.
shaderPendulums(angles, u_pendulum_lengths, u_pendulum_masses) ==
  [a |-> << u_pendulum_lengths[1], u_pendulum_masses[1], angles[1], 0 >>,
   b |-> << u_pendulum_lengths[2], u_pendulum_masses[2], angles[2], 0 >>]

pendulumAngles(pair) == << pair.a[3], pair.b[3] >>

\* Faulty variant: the second link's gravity term loses its factor 3 (the
\* form of the shader's first, Euler version).
shaderDerivativeDrifted(a, b, u_gravity) ==
  LET len1 == a[1]
      mass1 == a[2]
      angle1 == a[3]
      momentum1 == a[4]
      len2 == b[1]
      mass2 == b[2]
      angle2 == b[3]
      momentum2 == b[4]
      cosDiff == Cos(Sub(angle1, angle2))
      sinDiff == Sin(Sub(angle1, angle2))
      dAngle1 ==
        Div(Mul(Div(Lit(6), Mul(Mul(mass1, len1), len1)),
                Sub(Mul(Lit(2), momentum1),
                    Mul(Mul(Lit(3), cosDiff), momentum2))),
            Sub(Lit(16), Mul(Mul(Lit(9), cosDiff), cosDiff)))
      dAngle2 ==
        Div(Mul(Div(Lit(6), Mul(Mul(mass2, len2), len2)),
                Sub(Mul(Lit(8), momentum2),
                    Mul(Mul(Lit(3), cosDiff), momentum1))),
            Sub(Lit(16), Mul(Mul(Lit(9), cosDiff), cosDiff)))
      dMomentum1 ==
        Mul(Div(Mul(Mul(mass1, len1), len1), Lit(-2)),
            Add(Mul(Mul(dAngle1, dAngle2), sinDiff),
                Mul(Div(Mul(Lit(3), u_gravity), len1), Sin(angle1))))
      dMomentum2 ==
        Mul(Div(Mul(Mul(mass2, len2), len2), Lit(-2)),
            Add(Mul(Mul(Neg(dAngle1), dAngle2), sinDiff),
                Mul(Div(u_gravity, len2), Sin(angle2))))
  IN  << dAngle1, dAngle2, dMomentum1, dMomentum2 >>

\* vec4 derivative(vec4 a, vec4 b), reading u_gravity.
shaderDerivative(a, b, u_gravity) ==
  LET len1 == a[1]
      mass1 == a[2]
      angle1 == a[3]
      momentum1 == a[4]
      len2 == b[1]
      mass2 == b[2]
      angle2 == b[3]
      momentum2 == b[4]
      cosDiff == Cos(Sub(angle1, angle2))
      sinDiff == Sin(Sub(angle1, angle2))
      dAngle1 ==
        Div(Mul(Div(Lit(6), Mul(Mul(mass1, len1), len1)),
                Sub(Mul(Lit(2), momentum1),
                    Mul(Mul(Lit(3), cosDiff), momentum2))),
            Sub(Lit(16), Mul(Mul(Lit(9), cosDiff), cosDiff)))
      dAngle2 ==
        Div(Mul(Div(Lit(6), Mul(Mul(mass2, len2), len2)),
                Sub(Mul(Lit(8), momentum2),
                    Mul(Mul(Lit(3), cosDiff), momentum1))),
            Sub(Lit(16), Mul(Mul(Lit(9), cosDiff), cosDiff)))
      dMomentum1 ==
        Mul(Div(Mul(Mul(mass1, len1), len1), Lit(-2)),
            Add(Mul(Mul(dAngle1, dAngle2), sinDiff),
                Mul(Div(Mul(Lit(3), u_gravity), len1), Sin(angle1))))
      dMomentum2 ==
        Mul(Div(Mul(Mul(mass2, len2), len2), Lit(-2)),
            Add(Mul(Mul(Neg(dAngle1), dAngle2), sinDiff),
                Mul(Div(Mul(Lit(3), u_gravity), len2), Sin(angle2))))
  IN  << dAngle1, dAngle2, dMomentum1, dMomentum2 >>

\* simulateTimeStep, a half stage: <<k2pendulumA, k2pendulumB>> (and k3) from
\* the derivative k.
shaderHalfStage(a, b, k) ==
  << << a[1], a[2], Add(a[3], Div(Mul(k[1], TIME_STEP), Lit(2))),
        Add(a[4], Div(Mul(k[3], TIME_STEP), Lit(2))) >>,
     << b[1], b[2], Add(b[3], Div(Mul(k[2], TIME_STEP), Lit(2))),
        Add(b[4], Div(Mul(k[4], TIME_STEP), Lit(2))) >> >>

\* simulateTimeStep, the full stage: <<k4pendulumA, k4pendulumB>>.
shaderFullStage(a, b, k) ==
  << << a[1], a[2], Add(a[3], Mul(k[1], TIME_STEP)),
        Add(a[4], Mul(k[3], TIME_STEP)) >>,
     << b[1], b[2], Add(b[3], Mul(k[2], TIME_STEP)),
        Add(b[4], Mul(k[4], TIME_STEP)) >> >>

\* simulateTimeStep, the four assignments to a.z, a.w, b.z, b.w.
shaderAssign(a, b, k1, k2, k3, k4) ==
  LET Sum(i) ==
        Add(Add(Add(k1[i], Mul(Lit(2), k2[i])), Mul(Lit(2), k3[i])), k4[i])
      Update(x, i) == Add(x, Mul(Sum(i), Div(TIME_STEP, Lit(6))))
  IN  [a |-> << a[1], a[2], Update(a[3], 1), Update(a[4], 3) >>,
       b |-> << b[1], b[2], Update(b[3], 2), Update(b[4], 4) >>]

\* void simulateTimeStep(inout vec4 a, inout vec4 b): the pair afterwards.
simulateTimeStep(pair, u_gravity) ==
  LET a == pair.a
      b == pair.b
      k1 == shaderDerivative(a, b, u_gravity)
      k2pendulum == shaderHalfStage(a, b, k1)
      k2 == shaderDerivative(k2pendulum[1], k2pendulum[2], u_gravity)
      k3pendulum == shaderHalfStage(a, b, k2)
      k3 == shaderDerivative(k3pendulum[1], k3pendulum[2], u_gravity)
      k4pendulum == shaderFullStage(a, b, k3)
      k4 == shaderDerivative(k4pendulum[1], k4pendulum[2], u_gravity)
  IN  shaderAssign(a, b, k1, k2, k3, k4)

(***************************************************************************)
(* SpecSim: the three integrators stepped from the same arguments          *)
(***************************************************************************)
MaxAngle == 1

MaxLength == 2

MaxSteps == 2

\* const timeStep = 0.001 (DoublePendulum)
timeStep == Q(1, 1000)

\* Starting angles (radians).
SimAngles == 0 .. MaxAngle

\* Lengths; 0 is the degenerate length that the data model excludes and that
\* createPendulums accepts.
SimLengths == 0 .. MaxLength

\* Masses: the default pair and an unequal one.
SimMasses == { << 3, 3 >>, << 1, 2 >> }

\* Gravity: none, and the default 9.81.
SimGravities == { 0, Q(981, 100) }

\* The simulator's time step: DoublePendulum's, and the shader's.
SimTimeSteps == { timeStep, TIME_STEP }

InitSim ==
  /\ ctor \in [startingAngles : SimAngles \X SimAngles,
               lengths : SimLengths \X SimLengths,
               masses : SimMasses,
               gravity : SimGravities,
               timeStep : SimTimeSteps]
  /\ simulator =
       PendulumSimulator(ctor.timeStep,
                         createPendulums(ctor.startingAngles, ctor.lengths,
                                         ctor.masses),
                         ctor.gravity)
  /\ stepCalls = 0
  /\ gpuPair = shaderPendulums(ctor.startingAngles, ctor.lengths, ctor.masses)
  /\ gpuSteps = 0
  /\ legacyPendulums =
       createPendulums(ctor.startingAngles, ctor.lengths, ctor.masses)
  /\ legacySteps = 0
  /\ IdleExceptSim

\* simulator.step()
SimStep ==
  /\ stepCalls < MaxSteps
  /\ simulator' = step(simulator)
  /\ stepCalls' = stepCalls + 1
  /\ UNCHANGED << ctor, gpuPair, gpuSteps, legacyPendulums, legacySteps >>
  /\ UNCHANGED exceptSim

\* simulateTimeStep(pair.a, pair.b) with u_gravity = the same gravity
GpuStep ==
  /\ gpuSteps < MaxSteps
  /\ gpuPair' = simulateTimeStep(gpuPair, ctor.gravity)
  /\ gpuSteps' = gpuSteps + 1
  /\ UNCHANGED << ctor, simulator, stepCalls, legacyPendulums, legacySteps >>
  /\ UNCHANGED exceptSim

\* pendulumsRef.current = simulateTimeStep(pendulumsRef.current)
LegacyStep ==
  /\ legacySteps < MaxSteps
  /\ legacyPendulums' = rk4(legacyPendulums, ctor.gravity, timeStep)
  /\ legacySteps' = legacySteps + 1
  /\ UNCHANGED << ctor, simulator, stepCalls, gpuPair, gpuSteps >>
  /\ UNCHANGED exceptSim

NextSim == SimStep \/ GpuStep \/ LegacyStep

SpecSim == InitSim /\ [][NextSim]_vars

(***************************************************************************)
(* The simulator's properties (SpecSim)                                    *)
(***************************************************************************)
\* The pair of the construction arguments.
CtorPair == createPendulums(ctor.startingAngles, ctor.lengths, ctor.masses)

\* The joint state (angle1, momentum1, angle2, momentum2) of a pair.
StateVec(pair) ==
  << pair[1].angle, pair[1].momentum, pair[2].angle, pair[2].momentum >>

\* A shader pair as a PendulumPair of the simulator.
FromGpu(pair) ==
  << Pendulum(pair.a[3], pair.a[4], pair.a[1], pair.a[2]),
     Pendulum(pair.b[3], pair.b[4], pair.b[1], pair.b[2]) >>

AllFinite(pair) == \A i \in 1 .. 4 : StateVec(pair)[i] # NaN

\* C1: createPendulums, and the shader's pendulums constructor, return a
\* pair whose two momenta are 0 and whose angle, length and mass are the
\* corresponding arguments, whatever the arguments are.
C1_ConstructedAtRest ==
  /\ stepCalls = 0 =>
       \A i \in 1 .. 2 :
         /\ simulator.pendulums[i].momentum = 0
         /\ simulator.pendulums[i].angle = ctor.startingAngles[i]
         /\ simulator.pendulums[i].length = ctor.lengths[i]
         /\ simulator.pendulums[i].mass = ctor.masses[i]
  /\ gpuSteps = 0 =>
       /\ gpuPair.a = << ctor.lengths[1], ctor.masses[1],
                         ctor.startingAngles[1], 0 >>
       /\ gpuPair.b = << ctor.lengths[2], ctor.masses[2],
                         ctor.startingAngles[2], 0 >>

\* A pair just constructed from arguments that differ between the links,
\* one of them degenerate (length 0).
C1_Witness ==
  /\ stepCalls = 0
  /\ gpuSteps = 0
  /\ ctor.startingAngles[1] # ctor.startingAngles[2]
  /\ ctor.lengths[1] # ctor.lengths[2]
  /\ ctor.lengths[1] = 0
  /\ ctor.masses[1] # ctor.masses[2]

\* C2: after any number of step() calls both links have the length and the
\* mass given at construction.
C2_LengthMassUntouched ==
  \A i \in 1 .. 2 :
    /\ simulator.pendulums[i].length = ctor.lengths[i]
    /\ simulator.pendulums[i].mass = ctor.masses[i]

\* Two steps made, the state moved, the links of different length and mass.
C2_Witness ==
  /\ stepCalls >= 2
  /\ AllFinite(simulator.pendulums)
  /\ StateVec(simulator.pendulums) # StateVec(CtorPair)
  /\ ctor.lengths[1] # ctor.lengths[2]
  /\ ctor.masses[1] # ctor.masses[2]

VecAdd(u, v) == [i \in 1 .. 4 |-> Add(u[i], v[i])]

VecScale(c, v) == [i \in 1 .. 4 |-> Mul(c, v[i])]

ClassicalRK4(f(_), s, dt) ==
  LET k1 == f(s)
      k2 == f(VecAdd(s, VecScale(Div(dt, Lit(2)), k1)))
      k3 == f(VecAdd(s, VecScale(Div(dt, Lit(2)), k2)))
      k4 == f(VecAdd(s, VecScale(dt, k3)))
  IN  VecAdd(s,
             VecScale(Div(dt, Lit(6)),
                      VecAdd(VecAdd(k1, VecScale(Lit(2), k2)),
                             VecAdd(VecScale(Lit(2), k3), k4))))

RECURSIVE ClassicalRK4Steps(_, _, _, _)
ClassicalRK4Steps(f(_), s, dt, n) ==
  IF n = 0 THEN s ELSE ClassicalRK4Steps(f, ClassicalRK4(f, s, dt), dt, n - 1)

\* The simulator's derivative as a function of the joint state alone.
HostField(s) ==
  LET d == derivative(<< Pendulum(s[1], s[2], ctor.lengths[1], ctor.masses[1]),
                         Pendulum(s[3], s[4], ctor.lengths[2], ctor.masses[2]) >>,
                      ctor.gravity)
  IN  << d[1], d[3], d[2], d[4] >>

\* The shader's derivative as a function of the joint state alone.
GpuField(s) ==
  LET d == shaderDerivative(<< ctor.lengths[1], ctor.masses[1], s[1], s[2] >>,
                            << ctor.lengths[2], ctor.masses[2], s[3], s[4] >>,
                            ctor.gravity)
  IN  << d[1], d[3], d[2], d[4] >>

\* C4: the state after n calls of step() (of simulateTimeStep) is the state
\* that n steps of classical RK4 on the joint 4-vector give, every stage
\* evaluating the derivative on the intermediate values of both links.
C4_StepIsClassicalRK4 ==
  /\ StateVec(simulator.pendulums)
       = ClassicalRK4Steps(HostField, StateVec(CtorPair), ctor.timeStep,
                           stepCalls)
  /\ StateVec(FromGpu(gpuPair))
       = ClassicalRK4Steps(GpuField, StateVec(CtorPair), TIME_STEP, gpuSteps)

\* Both integrators stepped twice under gravity from distinct angles, both
\* links moving.
C4_Witness ==
  /\ stepCalls >= 2
  /\ gpuSteps >= 2
  /\ ctor.gravity # 0
  /\ ctor.startingAngles[1] # ctor.startingAngles[2]
  /\ AllFinite(simulator.pendulums)
  /\ AllFinite(FromGpu(gpuPair))
  /\ \A i \in 1 .. 4 :
       StateVec(simulator.pendulums)[i] # StateVec(CtorPair)[i]

\* C5: the simulator and the shader are the same function: at every state
\* their derivatives agree, and stepped the same number of times with the
\* same time step from the same arguments they hold the same state; so does
\* the pre-class rk4 of DoublePendulum.
C5_HostAndShaderAgree ==
  /\ derivative(simulator.pendulums, ctor.gravity)
       = shaderDerivative(<< simulator.pendulums[1].length,
                             simulator.pendulums[1].mass,
                             simulator.pendulums[1].angle,
                             simulator.pendulums[1].momentum >>,
                          << simulator.pendulums[2].length,
                             simulator.pendulums[2].mass,
                             simulator.pendulums[2].angle,
                             simulator.pendulums[2].momentum >>,
                          ctor.gravity)
  /\ (ctor.timeStep = TIME_STEP /\ stepCalls = gpuSteps)
       => simulator.pendulums = FromGpu(gpuPair)
  /\ (ctor.timeStep = timeStep /\ stepCalls = legacySteps)
       => simulator.pendulums = legacyPendulums

C5_Witness ==
  /\ ctor.timeStep = TIME_STEP
  /\ stepCalls >= 2
  /\ gpuSteps = stepCalls
  /\ ctor.gravity # 0
  /\ ctor.lengths[1] # ctor.lengths[2]
  /\ AllFinite(simulator.pendulums)
  /\ \A i \in 1 .. 4 :
       StateVec(simulator.pendulums)[i] # StateVec(CtorPair)[i]


(***************************************************************************)
(* SpecAnim: the DoublePendulum component driven by animation frames       *)
(***************************************************************************)
MaxFrames == 3

MaxChanges == 1

\* Timestamps are DOMHighResTimeStamps, milliseconds with a fraction.  The
\* model counts them in ticks, TicksPerMs ticks to the millisecond.
TicksPerMs == 2

\* The time between two frames, in ticks: half a millisecond, one
\* millisecond, two and a half.
FrameGaps == { 1, TicksPerMs, 2 * TicksPerMs + 1 }

\* The props a page gives the component: the defaults at two points of the
\* canvas, and other lengths, masses and gravity.
AnimProps ==
  { [startingAngles |-> << 1, 0 >>, lengths |-> << 1, 1 >>,
     masses |-> << 3, 3 >>, gravity |-> Q(981, 100)],
    [startingAngles |-> << 0, 1 >>, lengths |-> << 1, 1 >>,
     masses |-> << 3, 3 >>, gravity |-> Q(981, 100)],
    [startingAngles |-> << 1, 0 >>, lengths |-> << 1, 2 >>,
     masses |-> << 1, 2 >>, gravity |-> 0] }

\* requestAnimationFrame((timestamp) => animationFuncRef?.current?.(timestamp))
\* The tag records the simulator that was current at the request.
requestAnimationFrame(frames, handle, tag) ==
  frames \cup { [handle |-> handle, tag |-> tag] }

cancelAnimationFrame(frames, handle) == { f \in frames : f.handle # handle }

\* A cleanup that leaves the pending frame and the timestamp alone.
cleanupKeepsLoop(frames, frameRef, lastRef) ==
  [animationFrames |-> frames, lastTimestampRef |-> lastRef]

\* The effect's cleanup: cancel the frame that animationFrameRef names, when
\* it is truthy, and forget the last timestamp.
cleanup(frames, frameRef, lastRef) ==
  [animationFrames |->
     IF frameRef # Null /\ frameRef # 0
       THEN cancelAnimationFrame(frames, frameRef)
       ELSE frames,
   lastTimestampRef |-> Null]

\* Math.floor(deltaSeconds / timeStep), rounded up instead.
animateStepsRoundedUp(timestamp, last) ==
  (timestamp - last + TicksPerMs - 1) \div TicksPerMs

\* deltaSeconds = (timestamp - last) / 1000; Math.floor(deltaSeconds / timeStep)
\* with timeStep = 0.001: the whole milliseconds in timestamp - last.
animateSteps(timestamp, last) == (timestamp - last) \div TicksPerMs

\* for (let i = 0; i < steps; i++) simulatorRef.current.step()
RECURSIVE stepLoop(_, _, _)
stepLoop(sim, i, steps) ==
  IF i < steps
    THEN stepLoop(step(sim), i + 1, steps)
    ELSE [simulator |-> sim, calls |-> i]

NoCall ==
  [timestamp |-> 0, previous |-> Null, calls |-> 0, tag |-> 0,
   simulator |-> 0, threw |-> FALSE]

\* The component after its first render, before its effects have run.
InitAnim ==
  /\ props \in AnimProps
  /\ effectPending = TRUE
  /\ mounted = FALSE
  /\ simulatorRef = << >>
  /\ lastTimestampRef = Null
  /\ animationFrameRef = Null
  /\ animationFrames = {}
  /\ nextHandle = 1
  /\ now = 0
  /\ pendulumsState = << >>
  /\ generation = 0
  /\ committedProps = props
  /\ previousFrame = Null
  /\ runBaseline = Null
  /\ runCalls = 0
  /\ lastCall = NoCall
  /\ frameCount = 0
  /\ changeCount = 0
  /\ IdleExceptAnim

\* The page renders the component with other props.
ChangeProps ==
  /\ ~effectPending
  /\ changeCount < MaxChanges
  /\ \E p \in AnimProps \ {props} : props' = p
  /\ effectPending' = TRUE
  /\ changeCount' = changeCount + 1
  /\ UNCHANGED << mounted, simulatorRef, lastTimestampRef, animationFrameRef,
                  animationFrames, nextHandle, now, pendulumsState,
                  generation, committedProps, previousFrame, runBaseline,
                  runCalls, lastCall, frameCount >>
  /\ UNCHANGED exceptAnim

\* React commits the render: the cleanup of the previous run of the effect,
\* then the effect.
RunEffects ==
  /\ effectPending
  /\ LET cleaned ==
           IF mounted
             THEN cleanup(animationFrames, animationFrameRef,
                          lastTimestampRef)
             ELSE [animationFrames |-> animationFrames,
                   lastTimestampRef |-> lastTimestampRef]
     IN  /\ simulatorRef' =
              << PendulumSimulator(timeStep,
                                   createPendulums(props.startingAngles,
                                                   props.lengths,
                                                   props.masses),
                                   props.gravity) >>
         /\ animationFrames' =
              requestAnimationFrame(cleaned.animationFrames, nextHandle,
                                    generation + 1)
         /\ animationFrameRef' = nextHandle
         /\ lastTimestampRef' = cleaned.lastTimestampRef
  /\ nextHandle' = nextHandle + 1
  /\ mounted' = TRUE
  /\ effectPending' = FALSE
  /\ generation' = generation + 1
  /\ committedProps' = props
  /\ previousFrame' = Null
  /\ runBaseline' = Null
  /\ runCalls' = 0
  /\ UNCHANGED << props, now, pendulumsState, lastCall, frameCount,
                  changeCount >>
  /\ UNCHANGED exceptAnim

\* The browser runs a pending frame callback: animate(timestamp).
Frame ==
  /\ frameCount < MaxFrames
  /\ \E f \in animationFrames, gap \in FrameGaps :
       LET timestamp == now + gap
           pending == animationFrames \ {f}
       IN
       /\ now' = timestamp
       /\ frameCount' = frameCount + 1
       /\ IF simulatorRef = << >>
            THEN \* throw new Error("Simulator not initialized")
                 /\ lastCall' = [NoCall EXCEPT !.timestamp = timestamp,
                                               !.tag = f.tag,
                                               !.threw = TRUE]
                 /\ animationFrames' = pending
                 /\ UNCHANGED << simulatorRef, lastTimestampRef,
                                 animationFrameRef, nextHandle,
                                 pendulumsState, previousFrame, runBaseline,
                                 runCalls >>
            ELSE
              LET ran ==
                    IF lastTimestampRef = Null
                      THEN [simulator |-> simulatorRef[1], calls |-> 0]
                      ELSE stepLoop(simulatorRef[1], 0,
                                    animateSteps(timestamp, lastTimestampRef))
              IN
              /\ simulatorRef' = << ran.simulator >>
              /\ lastTimestampRef' = timestamp
              /\ animationFrames' =
                   requestAnimationFrame(pending, nextHandle, generation)
              /\ animationFrameRef' = nextHandle
              /\ nextHandle' = nextHandle + 1
              /\ pendulumsState' =
                   IF lastTimestampRef = Null
                     THEN pendulumsState
                     ELSE << getState(ran.simulator.pendulums) >>
              /\ lastCall' =
                   [timestamp |-> timestamp, previous |-> previousFrame,
                    calls |-> ran.calls, tag |-> f.tag,
                    simulator |-> generation, threw |-> FALSE]
              /\ previousFrame' = timestamp
              /\ runBaseline' =
                   IF previousFrame = Null THEN timestamp ELSE runBaseline
              /\ runCalls' = runCalls + ran.calls
  /\ UNCHANGED << props, effectPending, mounted, generation, committedProps,
                  changeCount >>
  /\ UNCHANGED exceptAnim

NextAnim == ChangeProps \/ RunEffects \/ Frame

SpecAnim == InitAnim /\ [][NextAnim]_vars

(***************************************************************************)
(* The component's properties (SpecAnim)                                   *)
(***************************************************************************)
\* The pair after n whole steps from pair.
RECURSIVE WholeSteps(_, _, _)
WholeSteps(pair, gravity, n) ==
  IF n = 0
    THEN pair
    ELSE WholeSteps(stepPendulums(pair, timeStep, gravity), gravity, n - 1)

\* The time between the latest frame and the frame before it, in ticks.
Elapsed == lastCall.timestamp - lastCall.previous

C7_RemainderAbsorbed ==
  (runBaseline # Null) =>
    (previousFrame - runBaseline) - runCalls * TicksPerMs < TicksPerMs

\* C10: a change of the props discards the simulator and its loop.  The
\* simulator in simulatorRef is the one built from the latest committed
\* props, at rest at their starting angles before its first step and stepped
\* whole steps since; once the effect has run those props are the current
\* ones; the first frame of the new run performs no step; every callback
\* that has run, and every pending one, was requested under the simulator
\* that is current, and at most one is pending.
C10_ChangeDiscardsLoop ==
  /\ generation > 0 =>
       /\ simulatorRef =
            << PendulumSimulator(
                 timeStep,
                 WholeSteps(createPendulums(committedProps.startingAngles,
                                            committedProps.lengths,
                                            committedProps.masses),
                            committedProps.gravity, runCalls),
                 committedProps.gravity) >>
       /\ runCalls = 0 =>
            \A i \in 1 .. 2 :
              /\ simulatorRef[1].pendulums[i].angle =
                   committedProps.startingAngles[i]
              /\ simulatorRef[1].pendulums[i].momentum = 0
  /\ ~effectPending => committedProps = props
  /\ (frameCount > 0 /\ lastCall.previous = Null) => lastCall.calls = 0
  /\ frameCount > 0 => /\ ~lastCall.threw
                       /\ lastCall.tag = lastCall.simulator
  /\ \A f \in animationFrames : f.tag = generation
  /\ Cardinality(animationFrames) <= 1

\* The second simulator, after a frame of the first one's loop had run, has
\* been stepped by its own loop.
C10_Witness ==
  /\ generation = 2
  /\ frameCount = 3
  /\ lastCall.simulator = 2
  /\ lastCall.tag = 2
  /\ lastCall.calls > 0
  /\ committedProps = props

(***************************************************************************)
(* SpecField: the canvas renders the field, low resolution then full       *)
(***************************************************************************)
MaxFactor == 2

MaxStepHalves == 5

\* Quantities that the canvas and the shader divide, truncate and compare
\* are exact fractions << numerator, denominator >>, denominator positive.
Frac(n, d) == IF d < 0 THEN << 0 - n, 0 - d >> ELSE << n, d >>

FracMul(a, b) == Frac(a[1] * b[1], a[2] * b[2])

FracDiv(a, b) == Frac(a[1] * b[2], a[2] * b[1])

FracSub(a, b) == Frac(a[1] * b[2] - b[1] * a[2], a[2] * b[2])

FracAdd(a, b) == Frac(a[1] * b[2] + b[1] * a[2], a[2] * b[2])

FracEq(a, b) == a[1] * b[2] = b[1] * a[2]

FracLess(a, b) == a[1] * b[2] < b[1] * a[2]

\* The conversion of a number to an unsigned long (canvas.width) or a GLsizei
\* (gl.viewport): the fraction is dropped.
Truncate(a) == IF a[1] < 0 THEN 0 - ((0 - a[1]) \div a[2]) ELSE a[1] \div a[2]

\* The value of a fraction as a float of the simulation.
FieldOf(a) == Q(a[1], a[2])

\* 2 * Math.PI
TwoPi == Frac(628, 100)

\* clientWidth and clientHeight of the canvas, in CSS pixels.
ClientSizes == { << 4, 2 >>, << 5, 2 >> }

\* window.devicePixelRatio: 1, and 1.5.
PixelRatios == { Frac(1, 1), Frac(3, 2) }

\* The stepCount that parseInputUniforms returns for a stepCount parameter:
\* parseFloat's number, whole or not, positive or not.
StepCounts == { Frac(n, 2) : n \in -1 .. MaxStepHalves }

\* The Dynamic Resolution slider, from 1.
ScaleFactors == 1 .. MaxFactor

\* downscaledUniforms(uniforms, factor)
downscaledUniforms(uniforms, factor) ==
  [uniforms EXCEPT
     !.resolution = << FracDiv(uniforms.resolution[1], Frac(factor, 1)),
                       FracDiv(uniforms.resolution[2], Frac(factor, 1)) >>]

\* A setCanvasSize that rounds the drawing buffer up.
setCanvasSizeRoundedUp(width, height, pixelRatio) ==
  [width |-> Truncate(FracMul(width, pixelRatio)) + 1,
   height |-> Truncate(FracMul(height, pixelRatio)) + 1]

\* setCanvasSize(canvas, width, height, pixelRatio): the drawing buffer.
setCanvasSize(width, height, pixelRatio) ==
  [width |-> Truncate(FracMul(width, pixelRatio)),
   height |-> Truncate(FracMul(height, pixelRatio))]

\* setViewport(gl, width, height, pixelRatio): gl.viewport(0, 0, w, h)
setViewport(width, height, pixelRatio) ==
  [width |-> Truncate(FracMul(width, pixelRatio)),
   height |-> Truncate(FracMul(height, pixelRatio))]

NoFragment ==
  [pc |-> "idle", pixel |-> << 0, 0 >>, uv |-> << Frac(0, 1), Frac(0, 1) >>,
   referencePendulums |-> << >>, adjacentPendulums |-> << >>, i |-> 0,
   referenceSteps |-> 0, adjacentSteps |-> 0, angles |-> << >>,
   fragColor |-> "none"]

\* The centre of the view: the origin, one radian to the right, and 5000
\* radians away in both directions (the view can be panned without limit).
FieldCenters ==
  { << Frac(0, 1), Frac(0, 1) >>, << Frac(1, 1), Frac(0, 1) >>,
    << Frac(5000, 1), Frac(5000, 1) >> }

\* The page has set fullUniforms from the URL's uniforms, the canvas
\* parameters and the client size; nothing is rendered yet.
InitField ==
  /\ devicePixelRatio \in PixelRatios
  /\ lowResScaleFactor \in ScaleFactors
  /\ \E size \in ClientSizes, stepCount \in StepCounts,
        center \in FieldCenters :
       fullUniforms =
         [resolution |-> << Frac(size[1], 1), Frac(size[2], 1) >>,
          pixelRatio |-> devicePixelRatio,
          size |-> << TwoPi, TwoPi >>,
          center |-> center,
          gravity |-> Q(981, 100),
          pendulumLengths |-> << 1, 1 >>,
          pendulumMasses |-> << 3, 3 >>,
          stepCount |-> stepCount]
  /\ glUniforms = << >>
  /\ canvas = [width |-> 300, height |-> 150]
  /\ viewport = [width |-> 300, height |-> 150]
  /\ drawn = "none"
  /\ frag = NoFragment
  /\ IdleExceptField

\* scheduleRenders, the first animation frame: the low resolution render.
LowResRender ==
  /\ drawn = "none"
  /\ LET scaleFactor == lowResScaleFactor
         pixelRatio == FracDiv(devicePixelRatio, Frac(scaleFactor, 1))
     IN  /\ glUniforms' = downscaledUniforms(fullUniforms, scaleFactor)
         /\ canvas' = setCanvasSize(fullUniforms.resolution[1],
                                    fullUniforms.resolution[2], pixelRatio)
         /\ viewport' = setViewport(fullUniforms.resolution[1],
                                    fullUniforms.resolution[2], pixelRatio)
  /\ drawn' = "low"
  /\ frag' = NoFragment
  /\ UNCHANGED << fullUniforms, lowResScaleFactor, devicePixelRatio >>
  /\ UNCHANGED exceptField

\* scheduleRenders, the animation frame of the timeout: the full resolution
\* render.
FullResRender ==
  /\ drawn = "low"
  /\ frag.pc \in { "idle", "done" }
  /\ glUniforms' = fullUniforms
  /\ canvas' = setCanvasSize(fullUniforms.resolution[1],
                             fullUniforms.resolution[2], devicePixelRatio)
  /\ viewport' = setViewport(fullUniforms.resolution[1],
                             fullUniforms.resolution[2], devicePixelRatio)
  /\ drawn' = "full"
  /\ frag' = NoFragment
  /\ UNCHANGED << fullUniforms, lowResScaleFactor, devicePixelRatio >>
  /\ UNCHANGED exceptField

\* gl_FragCoord.xy of a pixel: its centre.
FragCoord(pixel) == << Frac(2 * pixel[1] + 1, 2), Frac(2 * pixel[2] + 1, 2) >>

\* uv = gl_FragCoord.xy / (u_resolution.xy * vec2(u_pixel_ratio)) - vec2(0.5)
NormalizedUV(fragCoord, u_resolution, u_pixel_ratio) ==
  << FracSub(FracDiv(fragCoord[1], FracMul(u_resolution[1], u_pixel_ratio)),
             Frac(1, 2)),
     FracSub(FracDiv(fragCoord[2], FracMul(u_resolution[2], u_pixel_ratio)),
             Frac(1, 2)) >>

\* x + EPSILON rounds back to x: from 2048 on, the floats of 32 bits are
\* more than 2 * EPSILON apart (with fewer bits, earlier).
Absorbs(x) ==
  ~FracLess(IF x[1] < 0 THEN Frac(0 - x[1], x[2]) ELSE x, Frac(2048, 1))

\* x + offset in floats, offset being 0 or EPSILON.
floatAdd(x, offset) ==
  IF offset = 0 \/ Absorbs(x) THEN FieldOf(x) ELSE Add(FieldOf(x), offset)

\* uv * u_size + u_center, and the same plus vec2(EPSILON)
StartingAngles(uv, u_size, u_center, offset) ==
  << floatAdd(FracAdd(FracMul(uv[1], u_size[1]), u_center[1]), offset),
     floatAdd(FracAdd(FracMul(uv[2], u_size[2]), u_center[2]), offset) >>

\* main() begins for a pixel of the render: uv and the two pairs.
FragStart ==
  /\ drawn # "none"
  /\ frag.pc \in { "idle", "done" }
  /\ \E x \in 0 .. (canvas.width - 1), y \in 0 .. (canvas.height - 1) :
       /\ x < viewport.width
       /\ y < viewport.height
       /\ LET uv == NormalizedUV(FragCoord(<< x, y >>),
                                 glUniforms.resolution, glUniforms.pixelRatio)
          IN  frag' =
                [NoFragment EXCEPT
                   !.pc = "loop",
                   !.pixel = << x, y >>,
                   !.uv = uv,
                   !.referencePendulums =
                     shaderPendulums(
                       StartingAngles(uv, glUniforms.size, glUniforms.center,
                                      0),
                       glUniforms.pendulumLengths, glUniforms.pendulumMasses),
                   !.adjacentPendulums =
                     shaderPendulums(
                       StartingAngles(uv, glUniforms.size, glUniforms.center,
                                      EPSILON),
                       glUniforms.pendulumLengths, glUniforms.pendulumMasses)]
  /\ UNCHANGED << fullUniforms, lowResScaleFactor, devicePixelRatio,
                  glUniforms, canvas, viewport, drawn >>
  /\ UNCHANGED exceptField

\* for (float i = 0.0; i < u_step_count; i++): one pass of the body.
FragLoop ==
  /\ frag.pc = "loop"
  /\ FracLess(Frac(frag.i, 1), glUniforms.stepCount)
  /\ frag' =
       [frag EXCEPT
          !.referencePendulums =
            simulateTimeStep(frag.referencePendulums, glUniforms.gravity),
          !.adjacentPendulums =
            simulateTimeStep(frag.adjacentPendulums, glUniforms.gravity),
          !.referenceSteps = frag.referenceSteps + 1,
          !.adjacentSteps = frag.adjacentSteps + 1,
          !.i = frag.i + 1]
  /\ UNCHANGED << fullUniforms, lowResScaleFactor, devicePixelRatio,
                  glUniforms, canvas, viewport, drawn >>
  /\ UNCHANGED exceptField

\* A float of the colour computation is known by its class: "zero",
\* "positive" (finite and not zero) or "nan".  abs(a - b):
angleDifference(a, b) ==
  IF a = NaN \/ b = NaN THEN "nan" ELSE IF a = b THEN "zero" ELSE "positive"

angleDifferences(reference, adjacent) ==
  << angleDifference(reference[1], adjacent[1]),
     angleDifference(reference[2], adjacent[2]) >>

\* normalize(angleDifferences), then atan(y, x) + 0.5: "finite" or "nan".
\* The zero vector is divided by its length 0; GLSL leaves the result
\* undefined, and does not require an operation on NaN to return NaN.
hueOutcomes(differences) ==
  IF differences[1] = "nan" \/ differences[2] = "nan"
    THEN { "nan", "finite" }
  ELSE IF differences[1] = "zero" /\ differences[2] = "zero"
    THEN { "nan", "finite" }
  ELSE { "finite" }

\* (angleDifferences.x + angleDifferences.y) / (2.0 * 2.0 * PI)
valueOf(differences) ==
  IF differences[1] = "nan" \/ differences[2] = "nan" THEN "nan"
  ELSE IF differences[1] = "zero" /\ differences[2] = "zero" THEN "zero"
  ELSE "positive"

\* hsv2rgb(vec3(hue, 0.9, value)): c.z * mix(K.xxx, clamp(p - K.xxx, 0, 1),
\* c.y), as "colour", "black" or "nan".  clamp of NaN and the product with
\* NaN are NaN or not, as the implementation has it.
hsv2rgb(hue, value) ==
  IF value = "nan" THEN { "nan", "colour" }
  ELSE IF hue = "nan"
    THEN { "nan", IF value = "zero" THEN "black" ELSE "colour" }
  ELSE IF value = "zero" THEN { "black" }
  ELSE { "colour" }

\* The colours main() can write to fragColor.
fragColorOutcomes(differences) ==
  UNION { hsv2rgb(hue, valueOf(differences)) :
            hue \in hueOutcomes(differences) }

\* The loop ends: the angles of the two pairs, and the colour made of them.
FragEnd ==
  /\ frag.pc = "loop"
  /\ ~FracLess(Frac(frag.i, 1), glUniforms.stepCount)
  /\ \E color \in
         fragColorOutcomes(
           angleDifferences(pendulumAngles(frag.referencePendulums),
                            pendulumAngles(frag.adjacentPendulums))) :
       frag' =
         [frag EXCEPT
            !.pc = "done",
            !.angles = << pendulumAngles(frag.referencePendulums),
                          pendulumAngles(frag.adjacentPendulums) >>,
            !.fragColor = color]
  /\ UNCHANGED << fullUniforms, lowResScaleFactor, devicePixelRatio,
                  glUniforms, canvas, viewport, drawn >>
  /\ UNCHANGED exceptField

NextField ==
  LowResRender \/ FullResRender \/ FragStart \/ FragLoop \/ FragEnd

SpecField == InitField /\ [][NextField]_vars

(***************************************************************************)
(* The field's properties (SpecField)                                      *)
(***************************************************************************)
\* C8: for each pixel the evaluator steps the reference pair and the
\* perturbed pair exactly stepCount times each, for every stepCount the
\* application can supply.
C8_SteppedStepCountTimes ==
  (drawn # "none" /\ frag.pc = "done") =>
    /\ FracEq(Frac(frag.referenceSteps, 1), fullUniforms.stepCount)
    /\ FracEq(Frac(frag.adjacentSteps, 1), fullUniforms.stepCount)

\* C9: the evaluator's normalized coordinate of a pixel is
\* pixelCoordinate / resolution - 0.5 with resolution the size of the
\* drawing buffer, in the low resolution render and in the full one, so
\* the pixels of either render cover the whole rectangle of the view.
C9_ResolutionIsDrawingBuffer ==
  (drawn # "none") =>
    /\ FracEq(FracMul(glUniforms.resolution[1], glUniforms.pixelRatio),
              Frac(canvas.width, 1))
    /\ FracEq(FracMul(glUniforms.resolution[2], glUniforms.pixelRatio),
              Frac(canvas.height, 1))
    /\ frag.pc # "idle" =>
         /\ FracEq(frag.uv[1],
                   FracSub(FracDiv(FragCoord(frag.pixel)[1],
                                   Frac(canvas.width, 1)),
                           Frac(1, 2)))
         /\ FracEq(frag.uv[2],
                   FracSub(FracDiv(FragCoord(frag.pixel)[2],
                                   Frac(canvas.height, 1)),
                           Frac(1, 2)))

(***************************************************************************)
(* SpecAudio: the PendulumAudio component and its asynchronous generation  *)
(*                                                                         *)
(* A simulator is recorded by the props it was built from and the number   *)
(* of step() calls made on it, which determine its state.  The distance    *)
(* test of the search loop depends on that state after thousands of steps  *)
(* and is not computed: each stretch of the loop between two awaits either *)
(* finds no loop, or finds one at its first iteration.                     *)
(***************************************************************************)
MaxAudioChanges == 1

MaxToggles == 1

\* The props the canvas gives the component: a pendulum, and the same
\* pendulum dropped elsewhere.
AudioProps ==
  { [startingAngles |-> << 1, 0 >>, lengths |-> << 1, 1 >>,
     masses |-> << 3, 3 >>, gravity |-> Q(981, 100)],
    [startingAngles |-> << 0, 1 >>, lengths |-> << 1, 1 >>,
     masses |-> << 3, 3 >>, gravity |-> Q(981, 100)] }

\* const sampleRate = 44100
sampleRate == 44100

\* for (let i = 0; i < 1000; i++) simulatorRef.current.step()
warmupSteps == 1000

\* const minSamples = 100
minSamples == 100

\* if (i % 4410 === 0) await new Promise(...)
yieldInterval == 4410

\* playAudioChunk(1)
maxSeconds == 1

\* Faulty variant: the states collected before the search are not deducted.
searchLimitNotDeducted == sampleRate * maxSeconds

\* sampleRate * maxSeconds - (minSamples + 1), the bound of the search loop
searchLimit == sampleRate * maxSeconds - (minSamples + 1)

\* gainLevel(isMuted, isStatic)
gainLevel(muted, static) ==
  IF muted THEN Frac(0, 1) ELSE IF static THEN Frac(1, 10) ELSE Frac(1, 1)

\* A call of playAudioChunk, from the resume() it waits for to its end.
\*   phase      "resume": waiting for resume(); "await": inside the search
\*              loop's timeout; "played", "failed": over
\*   i, states  the loop index and states.length at the await
\*   muted      the isMuted that this playAudioChunk closed over
\*   context    the AudioContext whose resume() it was chained to
\*   stepped    the simulators it has called step() on
\*   discarded, callsAfter, startedAfter: the cleanup ran while it was in
\*              flight; its step() calls and source.start() calls since
NewTask(muted, context) ==
  [phase |-> "resume", i |-> 0, states |-> 0, muted |-> muted,
   context |-> context, stepped |-> {}, discarded |-> FALSE,
   callsAfter |-> 0, startedAfter |-> FALSE]

InFlight(task) == task.phase \in { "resume", "await" }

\* n calls of simulatorRef.current.step() by a task
StepCalls(simulators, ref, n) ==
  [simulators EXCEPT ![ref].calls = simulators[ref].calls + n]

TaskStepped(task, ref, n) ==
  [task EXCEPT !.stepped = task.stepped \cup {ref},
               !.callsAfter =
                 IF task.discarded THEN task.callsAfter + n
                                   ELSE task.callsAfter]

\* The effect's cleanup: gainRef and audioContextRef are set to null and the
\* context is closed; simulatorRef is left as it is.
audioCleanup(contexts, contextRef) ==
  IF contextRef # 0
    THEN [contexts EXCEPT ![contextRef].state = "closed"]
    ELSE contexts

Discard(tasks) ==
  [t \in DOMAIN tasks |->
     IF InFlight(tasks[t]) THEN [tasks[t] EXCEPT !.discarded = TRUE]
                           ELSE tasks[t]]

\* The component after its first render, before its effect has run.
InitAudio ==
  /\ audioProps \in AudioProps
  /\ audioEffect = "pending"
  /\ audioSimulatorRef = 0
  /\ audioContextRef = 0
  /\ gainRef = << >>
  /\ localStorage \in { << >>, << "true" >>, << "false" >> }
  /\ isMuted = (localStorage # << "false" >>)
  /\ isStatic = FALSE
  /\ audioSimulators = << >>
  /\ audioContexts = << >>
  /\ audioTasks = << >>
  /\ audioTimers = << >>
  /\ audioChanges = 0
  /\ muteToggles = 0
  /\ IdleExceptAudio

\* The canvas renders the component with other props.
AudioChangeProps ==
  /\ audioEffect = "done"
  /\ audioChanges < MaxAudioChanges
  /\ \E p \in AudioProps \ {audioProps} : audioProps' = p
  /\ audioEffect' = "pending"
  /\ audioChanges' = audioChanges + 1
  /\ UNCHANGED << audioSimulatorRef, audioContextRef, gainRef, isMuted,
                  isStatic, audioSimulators, audioContexts, audioTasks,
                  audioTimers >>
  /\ UNCHANGED << localStorage, muteToggles >>
  /\ UNCHANGED exceptAudio

\* React commits the render: the cleanup of the previous run of the effect,
\* then the effect, which builds a simulator and an AudioContext and chains
\* playAudioChunk(1) to resume().
AudioRunEffect ==
  /\ audioEffect = "pending"
  /\ LET rerun == audioSimulatorRef # 0
         cleaned ==
           IF rerun THEN audioCleanup(audioContexts, audioContextRef)
                    ELSE audioContexts
         tasks == IF rerun THEN Discard(audioTasks) ELSE audioTasks
     IN  /\ audioSimulators' =
              Append(audioSimulators, [props |-> audioProps, calls |-> 0])
         /\ audioSimulatorRef' = Len(audioSimulators) + 1
         /\ audioContexts' =
              Append(cleaned, [state |-> "running", sources |-> 0])
         /\ audioContextRef' = Len(audioContexts) + 1
         /\ audioTasks' =
              Append(tasks, NewTask(isMuted, Len(audioContexts) + 1))
         /\ gainRef' = IF rerun THEN << >> ELSE gainRef
  /\ audioEffect' = "done"
  /\ UNCHANGED << audioProps, isMuted, isStatic, audioTimers,
                  audioChanges >>
  /\ UNCHANGED << localStorage, muteToggles >>
  /\ UNCHANGED exceptAudio

\* The pendulum is removed: the component unmounts and the cleanup runs.
AudioRemove ==
  /\ audioEffect = "done"
  /\ audioEffect' = "removed"
  /\ audioContexts' = audioCleanup(audioContexts, audioContextRef)
  /\ audioContextRef' = 0
  /\ gainRef' = << >>
  /\ audioTasks' = Discard(audioTasks)
  /\ UNCHANGED << audioProps, audioSimulatorRef, isMuted, isStatic,
                  audioSimulators, audioTimers, audioChanges >>
  /\ UNCHANGED << localStorage, muteToggles >>
  /\ UNCHANGED exceptAudio

\* resume() settles.  On a closed context it rejects and console.error is
\* all that happens.  Otherwise playAudioChunk(1) begins and, with it,
\* generateAudioChunk(1): the warm-up steps, the reference state, minSamples
\* further steps, and the await of the search loop's iteration 0.
ResumeSettles ==
  \E t \in DOMAIN audioTasks :
    LET task == audioTasks[t] IN
    /\ task.phase = "resume"
    /\ IF audioContexts[task.context].state = "closed"
          \/ audioContextRef = 0
          \/ audioSimulatorRef = 0
         THEN /\ audioTasks' =
                   [audioTasks EXCEPT ![t] = [task EXCEPT !.phase = "failed"]]
              /\ UNCHANGED << audioSimulators, audioTimers >>
         ELSE /\ audioTimers' = Append(audioTimers, t)
              /\ audioSimulators' =
                   StepCalls(audioSimulators, audioSimulatorRef,
                             warmupSteps + minSamples)
              /\ audioTasks' =
                   [audioTasks EXCEPT
                      ![t] =
                        [TaskStepped(task, audioSimulatorRef,
                                     warmupSteps + minSamples)
                           EXCEPT !.phase = "await",
                                  !.i = 0,
                                  !.states = 1 + minSamples]]
    /\ UNCHANGED << audioProps, audioEffect, audioSimulatorRef,
                    audioContextRef, gainRef, isMuted, isStatic,
                    audioContexts, audioChanges >>
    /\ UNCHANGED << localStorage, muteToggles >>
    /\ UNCHANGED exceptAudio

\* isMuted.toString()
booleanString(b) == IF b THEN "true" ELSE "false"

\* The end of playAudioChunk, after generateAudioChunk has returned:
\* setIsStatic, the buffer, the source, the gain node and source.start().
\* With audioContextRef null, createBuffer throws a TypeError.  When
\* setIsStatic changed isStatic, the component renders again and the effect
\* of [isMuted, isStatic] stores the preference and sets the gain anew.
PlayTail(t, task, simulators, loopFound) ==
  /\ audioSimulators' = simulators
  /\ IF audioContextRef = 0
       THEN /\ audioTasks' =
                 [audioTasks EXCEPT ![t] = [task EXCEPT !.phase = "failed"]]
            /\ isStatic' = ~loopFound
            /\ UNCHANGED << gainRef, audioContexts, localStorage >>
       ELSE /\ audioTasks' =
                 [audioTasks EXCEPT
                    ![t] = [task EXCEPT !.phase = "played",
                                        !.startedAfter = task.discarded]]
            /\ isStatic' = ~loopFound
            /\ gainRef' =
                 << [context |-> audioContextRef,
                     value |->
                       IF isStatic # ~loopFound
                         THEN gainLevel(isMuted, ~loopFound)
                         ELSE gainLevel(task.muted, ~loopFound)] >>
            /\ localStorage' =
                 IF isStatic # ~loopFound
                   THEN << booleanString(isMuted) >>
                   ELSE localStorage
            /\ audioContexts' =
                 [audioContexts EXCEPT
                    ![audioContextRef].sources =
                      audioContexts[audioContextRef].sources + 1]

\* The oldest timeout of a search loop's await fires (timeouts of one delay
\* fire in the order they were set): the loop runs on from iteration i,
\* calling step() on whatever simulatorRef.current is, until it finds a
\* loop, reaches its bound, or reaches the next await.
SearchResumes ==
  /\ audioTimers # << >>
  /\
    LET t == Head(audioTimers)
        task == audioTasks[t]
        ref == audioSimulatorRef
        last == IF task.i + yieldInterval < searchLimit
                  THEN task.i + yieldInterval
                  ELSE searchLimit
    IN
    /\ task.phase = "await"
    /\ \/ \* no iteration of this stretch passes the distance test
          LET n == last - task.i
              ran == [TaskStepped(task, ref, n)
                        EXCEPT !.i = last, !.states = task.states + n]
          IN  IF last < searchLimit
                THEN /\ audioSimulators' = StepCalls(audioSimulators, ref, n)
                     /\ audioTasks' = [audioTasks EXCEPT ![t] = ran]
                     /\ audioTimers' = Append(Tail(audioTimers), t)
                     /\ UNCHANGED << gainRef, isStatic, audioContexts,
                                     localStorage >>
                ELSE /\ audioTimers' = Tail(audioTimers)
                     /\ PlayTail(t, ran, StepCalls(audioSimulators, ref, n),
                                 FALSE)
       \/ \* iteration k passes it: break before states.push
          \E k \in { task.i } :
            LET n == k - task.i + 1
                ran == [TaskStepped(task, ref, n)
                          EXCEPT !.i = k, !.states = task.states + n - 1]
            IN  /\ audioTimers' = Tail(audioTimers)
                /\ PlayTail(t, ran, StepCalls(audioSimulators, ref, n), TRUE)
    /\ UNCHANGED << audioProps, audioEffect, audioSimulatorRef,
                    audioContextRef, isMuted, audioChanges >>
    /\ UNCHANGED muteToggles
    /\ UNCHANGED exceptAudio

\* A click on the mute button: setIsMuted((prev) => !prev), the render, and
\* the effect of [isMuted, isStatic], which returns at once while there is
\* no gain node.
ToggleMute ==
  /\ audioEffect = "done"
  /\ muteToggles < MaxToggles
  /\ muteToggles' = muteToggles + 1
  /\ isMuted' = ~isMuted
  /\ IF gainRef = << >>
       THEN UNCHANGED << localStorage, gainRef >>
       ELSE /\ localStorage' = << booleanString(~isMuted) >>
            /\ gainRef' =
                 << [gainRef[1] EXCEPT
                       !.value = gainLevel(~isMuted, isStatic)] >>
  /\ UNCHANGED << audioProps, audioEffect, audioSimulatorRef,
                  audioContextRef, isStatic, audioSimulators, audioContexts,
                  audioTasks, audioTimers, audioChanges >>
  /\ UNCHANGED exceptAudio

NextAudio ==
  \/ AudioChangeProps
  \/ AudioRunEffect
  \/ AudioRemove
  \/ ResumeSettles
  \/ SearchResumes
  \/ ToggleMute

SpecAudio == InitAudio /\ [][NextAudio]_vars

(***************************************************************************)
(* The audio component's properties (SpecAudio)                            *)
(***************************************************************************)
\* C11: a generation that is in flight when the props change or the
\* pendulum is removed is discarded: from then on it calls step() on no
\* simulator and starts no audio source.
C11_InFlightGenerationDiscarded ==
  \A t \in DOMAIN audioTasks :
    /\ audioTasks[t].callsAfter = 0
    /\ ~audioTasks[t].startedAfter

\* C12: step loops never overlap on one simulator: no two generations that
\* have begun and not completed have called step() on the same simulator.
C12_StepLoopsDoNotOverlap ==
  \A t, u \in DOMAIN audioTasks :
    (t # u /\ audioTasks[t].phase = "await" /\ audioTasks[u].phase = "await")
      => audioTasks[t].stepped \cap audioTasks[u].stepped = {}

(***************************************************************************)
(* SpecHeap: the PendulumPair objects of the two simulators                *)
(*                                                                         *)
(* A PendulumPair is an array of two objects, built by one expression and  *)
(* handed on whole; the heap holds each pair under one reference.          *)
(***************************************************************************)
\* const timeStep = 0.005 (PendulumAudio)
audioTimeStep == Q(5, 1000)

\* An array literal that hands out the first pair again.
NewPairShared(objects, pair) ==
  IF objects = << >>
    THEN [heap |-> Append(objects, pair), ref |-> 1]
    ELSE [heap |-> objects, ref |-> 1]

\* The array literal of createPendulums, and JSON.parse: a new object.
NewPair(objects, pair) ==
  [heap |-> Append(objects, pair), ref |-> Len(objects) + 1]

\* A getState that returns this.pendulums.
getStateRefAliased(objects, ref) == [heap |-> objects, ref |-> ref]

\* getState(): JSON.parse(JSON.stringify(this.pendulums)), a new pair.
getStateRef(objects, ref) == NewPair(objects, getState(objects[ref]))

\* step(): the assignments to this.pendulums[..], then return this.getState()
stepRef(objects, sim) ==
  CHOOSE returned \in
    { getStateRef([objects EXCEPT ![sim.pendulums] = pair], sim.pendulums) :
        pair \in { stepPendulums(objects[sim.pendulums], sim.timeStep,
                                 sim.gravity) } } : TRUE

\* Both components are rendered with the same props; no effect has run.
InitHeap ==
  /\ heap = << >>
  /\ heapProps \in AnimProps
  /\ animationSimulator = << >>
  /\ audioSimulator = << >>
  /\ snapshots = << >>
  /\ heapSteps = << 0, 0 >>
  /\ IdleExceptHeap

\* DoublePendulum's effect: new PendulumSimulator(timeStep,
\* createPendulums(...), gravity); the constructor keeps the reference.
HeapAnimationEffect ==
  /\ animationSimulator = << >>
  /\ LET made == NewPair(heap, createPendulums(heapProps.startingAngles,
                                               heapProps.lengths,
                                               heapProps.masses))
     IN  /\ heap' = made.heap
         /\ animationSimulator' =
              << PendulumSimulator(timeStep, made.ref, heapProps.gravity) >>
  /\ UNCHANGED << heapProps, audioSimulator, snapshots, heapSteps >>
  /\ UNCHANGED exceptHeap

\* PendulumAudio's effect: the same with its own time step.
HeapAudioEffect ==
  /\ audioSimulator = << >>
  /\ LET made == NewPair(heap, createPendulums(heapProps.startingAngles,
                                               heapProps.lengths,
                                               heapProps.masses))
     IN  /\ heap' = made.heap
         /\ audioSimulator' =
              << PendulumSimulator(audioTimeStep, made.ref,
                                   heapProps.gravity) >>
  /\ UNCHANGED << heapProps, animationSimulator, snapshots, heapSteps >>
  /\ UNCHANGED exceptHeap

\* A snapshot a caller holds: its reference and the value it had when it
\* was returned.
Snapshot(ref, value) == [ref |-> ref, taken |-> value]

\* animate: simulatorRef.current.step(), setPendulums(getState())
HeapAnimationStep ==
  /\ animationSimulator # << >>
  /\ heapSteps[1] < MaxSteps
  /\ \E stepped \in { stepRef(heap, animationSimulator[1]) } :
       \E state \in { getStateRef(stepped.heap,
                                  animationSimulator[1].pendulums) } :
         /\ heap' = state.heap
         /\ snapshots' =
              snapshots \o << Snapshot(stepped.ref, stepped.heap[stepped.ref]),
                              Snapshot(state.ref, state.heap[state.ref]) >>
  /\ heapSteps' = [heapSteps EXCEPT ![1] = heapSteps[1] + 1]
  /\ UNCHANGED << heapProps, animationSimulator, audioSimulator >>
  /\ UNCHANGED exceptHeap

\* generateAudioChunk: const newState = simulatorRef.current.step();
\* states.push(newState)
HeapAudioStep ==
  /\ audioSimulator # << >>
  /\ heapSteps[2] < MaxSteps
  /\ \E stepped \in { stepRef(heap, audioSimulator[1]) } :
       /\ heap' = stepped.heap
       /\ snapshots' =
            Append(snapshots,
                   Snapshot(stepped.ref, stepped.heap[stepped.ref]))
  /\ heapSteps' = [heapSteps EXCEPT ![2] = heapSteps[2] + 1]
  /\ UNCHANGED << heapProps, animationSimulator, audioSimulator >>
  /\ UNCHANGED exceptHeap

NextHeap ==
  \/ HeapAnimationEffect
  \/ HeapAudioEffect
  \/ HeapAnimationStep
  \/ HeapAudioStep

SpecHeap == InitHeap /\ [][NextHeap]_vars

(***************************************************************************)
(* The objects' properties (SpecHeap)                                      *)
(***************************************************************************)
\* The pair after n whole steps of size dt from pair.
RECURSIVE WholeStepsOf(_, _, _, _)
WholeStepsOf(pair, dt, gravity, n) ==
  IF n = 0
    THEN pair
    ELSE WholeStepsOf(stepPendulums(pair, dt, gravity), dt, gravity, n - 1)

HeapCreated ==
  createPendulums(heapProps.startingAngles, heapProps.lengths,
                  heapProps.masses)

\* C13: the animated pendulum and the audio component each own their pair:
\* the two simulators hold different pairs, no caller holds either, and
\* each pair is what its own simulator's steps alone made of it.
C13_EachSimulatorOwnsItsPair ==
  /\ (animationSimulator # << >> /\ audioSimulator # << >>) =>
       animationSimulator[1].pendulums # audioSimulator[1].pendulums
  /\ animationSimulator # << >> =>
       /\ heap[animationSimulator[1].pendulums] =
            WholeStepsOf(HeapCreated, timeStep, heapProps.gravity,
                         heapSteps[1])
       /\ \A i \in DOMAIN snapshots :
            snapshots[i].ref # animationSimulator[1].pendulums
  /\ audioSimulator # << >> =>
       /\ heap[audioSimulator[1].pendulums] =
            WholeStepsOf(HeapCreated, audioTimeStep, heapProps.gravity,
                         heapSteps[2])
       /\ \A i \in DOMAIN snapshots :
            snapshots[i].ref # audioSimulator[1].pendulums

\* Both simulators have been stepped, the audio one more often.
C13_Witness ==
  /\ animationSimulator # << >>
  /\ audioSimulator # << >>
  /\ heapSteps[1] = 1
  /\ heapSteps[2] = 2
  /\ heap[animationSimulator[1].pendulums]
       # heap[audioSimulator[1].pendulums]

\* C14: what step() and getState() return is a snapshot: later step() calls
\* leave it as it was returned, and it is an object of its own, neither a
\* simulator's pair nor another snapshot, so writing to it changes nothing
\* else.
C14_SnapshotsAreCopies ==
  \A i \in DOMAIN snapshots :
    /\ heap[snapshots[i].ref] = snapshots[i].taken
    /\ animationSimulator # << >> =>
         snapshots[i].ref # animationSimulator[1].pendulums
    /\ audioSimulator # << >> =>
         snapshots[i].ref # audioSimulator[1].pendulums
    /\ \A j \in DOMAIN snapshots :
         i # j => snapshots[i].ref # snapshots[j].ref

\* A snapshot of the animation simulator was taken and the simulator has
\* been stepped again since, to another state.
C14_Witness ==
  /\ animationSimulator # << >>
  /\ heapSteps[1] = 2
  /\ Len(snapshots) >= 4
  /\ snapshots[1].taken # snapshots[3].taken
  /\ getState(heap[animationSimulator[1].pendulums]) # snapshots[1].taken

(***************************************************************************)
(* Non-finite state and the state exposed to callers (SpecSim)             *)
(***************************************************************************)
\* C15: when a link's angle or momentum inside the simulator is non-finite,
\* the state that step() and getState() expose carries that same non-finite
\* value in that field.
C15_NonFiniteIsExposed ==
  \A i \in 1 .. 2 :
    /\ simulator.pendulums[i].angle = NaN =>
         getState(simulator.pendulums)[i].angle = NaN
    /\ simulator.pendulums[i].momentum = NaN =>
         getState(simulator.pendulums)[i].momentum = NaN

(***************************************************************************)
(* The page: Visualizer's uniforms, the Controls sliders, the canvas       *)
(* parameters and the shared URL (SpecPage)                                *)
(*                                                                         *)
(* Numbers of the page are decimal fixed point: JsNumber(h) is the number  *)
(* h / 100.  A string is the sequence of its characters.  A value that may *)
(* be null is << >> for null and << v >> otherwise; a number that may be   *)
(* null is JsNull or a number.                                             *)
(***************************************************************************)
JsNumber(h) == << "number", h >>

JsNaN == << "NaN", 0 >>

JsUndefined == << "undefined", 0 >>

JsNull == << "null", 0 >>

IsNumber(v) == v[1] = "number"

Digits == << "0", "1", "2", "3", "4", "5", "6", "7", "8", "9" >>

IsDigit(c) == \E d \in 1 .. 10 : Digits[d] = c

DigitValue(c) == (CHOOSE d \in 1 .. 10 : Digits[d] = c) - 1

\* The length of the run of digits a string starts with.
RECURSIVE DigitRun(_)
DigitRun(s) ==
  IF s = << >> THEN 0
  ELSE IF IsDigit(s[1]) THEN 1 + DigitRun(Tail(s))
  ELSE 0

\* The number a string of digits writes.
RECURSIVE DigitsValue(_)
DigitsValue(s) ==
  IF s = << >> THEN 0
  ELSE DigitsValue(SubSeq(s, 1, Len(s) - 1)) * 10 + DigitValue(s[Len(s)])

\* parseFloat(string): the longest prefix that is a decimal literal (sign,
\* digits, point, digits); NaN when that prefix has no digit.  Fraction
\* digits beyond the second are below the model's resolution.
parseFloat(s) ==
  LET negative == s # << >> /\ s[1] = "-"
      unsigned == IF negative THEN Tail(s) ELSE s
      n == DigitRun(unsigned)
      afterWhole == SubSeq(unsigned, n + 1, Len(unsigned))
      hasPoint == afterWhole # << >> /\ afterWhole[1] = "."
      fraction == IF hasPoint THEN Tail(afterWhole) ELSE << >>
      m == DigitRun(fraction)
      whole == DigitsValue(SubSeq(unsigned, 1, n))
      tenths == IF m >= 1 THEN DigitValue(fraction[1]) ELSE 0
      hundredths == IF m >= 2 THEN DigitValue(fraction[2]) ELSE 0
      magnitude == whole * 100 + tenths * 10 + hundredths
  IN  IF n = 0 /\ m = 0 THEN JsNaN
      ELSE JsNumber(IF negative THEN 0 - magnitude ELSE magnitude)

\* The decimal digits of a natural number.
RECURSIVE NatString(_)
NatString(n) ==
  IF n < 10 THEN << Digits[n + 1] >>
  ELSE NatString(n \div 10) \o << Digits[(n % 10) + 1] >>

\* Number.prototype.toString(): the shortest decimal that reads back as the
\* number.
toString(v) ==
  IF v = JsNaN THEN << "N", "a", "N" >>
  ELSE
    LET h == v[2]
        magnitude == IF h < 0 THEN 0 - h ELSE h
        frac == magnitude % 100
        sign == IF h < 0 THEN << "-" >> ELSE << >>
        fraction ==
          IF frac = 0 THEN << >>
          ELSE IF frac % 10 = 0 THEN << ".", Digits[(frac \div 10) + 1] >>
          ELSE << ".", Digits[(frac \div 10) + 1], Digits[(frac % 10) + 1] >>
    IN  sign \o NatString(magnitude \div 100) \o fraction

\* Number.prototype.toFixed(precision) of a number, precision 0, 1 or 2:
\* rounded to that many fraction digits, a tie going away from zero.
toFixed(v, precision) ==
  LET h == v[2]
      magnitude == IF h < 0 THEN 0 - h ELSE h
      unit == IF precision = 0 THEN 100 ELSE IF precision = 1 THEN 10 ELSE 1
      rounded == (magnitude + (unit \div 2)) \div unit
      sign == IF h < 0 THEN << "-" >> ELSE << >>
      shown ==
        IF precision = 0 THEN NatString(rounded)
        ELSE IF precision = 1
          THEN NatString(rounded \div 10) \o << ".", Digits[(rounded % 10) + 1] >>
        ELSE NatString(rounded \div 100)
               \o << ".", Digits[((rounded \div 10) % 10) + 1],
                     Digits[(rounded % 10) + 1] >>
  IN  sign \o shown

\* Array.prototype.join(","): an undefined or null element is written as
\* the empty string.
joinElement(v) ==
  IF v = JsUndefined \/ v = JsNull THEN << >> ELSE toString(v)

join(pair) == joinElement(pair[1]) \o << "," >> \o joinElement(pair[2])

\* String.prototype.split(","): the pieces between the commas.
RECURSIVE split(_)
split(s) ==
  IF \E i \in 1 .. Len(s) : s[i] = ","
  THEN LET i == CHOOSE i \in 1 .. Len(s) :
                  s[i] = "," /\ \A j \in 1 .. (i - 1) : s[j] # ","
       IN  << SubSeq(s, 1, i - 1) >> \o split(SubSeq(s, i + 1, Len(s)))
  ELSE << s >>

\* URLSearchParams.toString(): a comma is percent-encoded; digits, "-" and
\* "." are written as they are.
RECURSIVE percentEncode(_)
percentEncode(s) ==
  IF s = << >> THEN << >>
  ELSE IF s[1] = "," THEN << "%", "2", "C" >> \o percentEncode(Tail(s))
  ELSE << s[1] >> \o percentEncode(Tail(s))

\* The decoding of a query string value.
RECURSIVE percentDecode(_)
percentDecode(s) ==
  IF s = << >> THEN << >>
  ELSE IF Len(s) >= 3 /\ SubSeq(s, 1, 3) = << "%", "2", "C" >>
    THEN << "," >> \o percentDecode(SubSeq(s, 4, Len(s)))
  ELSE << s[1] >> \o percentDecode(Tail(s))

\* URLSearchParams.get(name): null, or the decoded value.
get(params, name) ==
  IF params[name] = << >> THEN << >>
  ELSE << percentDecode(params[name][1]) >>

\* paramParser.ts
parseNumber(value) ==
  IF value = << >> THEN JsNull
  ELSE LET num == parseFloat(value[1])
       IN  IF num = JsNaN THEN JsNull ELSE num

\* const [a, b] = value.split(",").map(parseNumber): b is undefined when
\* there is one piece only.
parseTuple(value) ==
  IF value = << >> THEN << >>
  ELSE
    LET pieces == split(value[1])
        a == parseNumber(<< pieces[1] >>)
        b == IF Len(pieces) >= 2 THEN parseNumber(<< pieces[2] >>)
             ELSE JsUndefined
    IN  IF a = JsNull \/ b = JsNull THEN << >> ELSE << << a, b >> >>

parseInputUniforms(params) ==
  LET gravity == parseNumber(get(params, "gravity"))
      pendulumLengths == parseTuple(get(params, "pendulumLengths"))
      pendulumMasses == parseTuple(get(params, "pendulumMasses"))
      stepCount == parseNumber(get(params, "stepCount"))
  IN  IF gravity = JsNull THEN << >>
      ELSE IF pendulumLengths = << >> THEN << >>
      ELSE IF pendulumMasses = << >> THEN << >>
      ELSE IF stepCount = JsNull THEN << >>
      ELSE << [gravity |-> gravity,
               pendulumLengths |-> pendulumLengths[1],
               pendulumMasses |-> pendulumMasses[1],
               stepCount |-> stepCount] >>

parseCanvasParams(params) ==
  LET size == parseTuple(get(params, "size"))
      center == parseTuple(get(params, "center"))
      angles == parseTuple(get(params, "clickedAngles"))
  IN  IF size = << >> THEN << >>
      ELSE IF center = << >> THEN << >>
      ELSE << [size |-> size[1], center |-> center[1],
               clickedAngles |-> angles] >>

\* page.tsx: defaultUniforms.
defaultUniforms ==
  [gravity |-> JsNumber(981),
   pendulumLengths |-> << JsNumber(100), JsNumber(100) >>,
   pendulumMasses |-> << JsNumber(300), JsNumber(300) >>,
   stepCount |-> JsNumber(80000)]

\* The six Sliders of ControlsContent that set the uniforms.
Sliders == { "stepCount", "gravity", "lengthA", "massA", "lengthB", "massB" }

\* A Slider's min, max (in hundredths) and precision.
SliderProps(slider) ==
  IF slider = "stepCount"
    THEN [min |-> 5000, max |-> 100000, precision |-> 0]
  ELSE IF slider = "gravity"
    THEN [min |-> 0, max |-> 2000, precision |-> 2]
  ELSE [min |-> 10, max |-> 1000, precision |-> 1]

\* A Slider's value prop.
SliderValue(u, slider) ==
  CASE slider = "stepCount" -> u.stepCount
    [] slider = "gravity" -> u.gravity
    [] slider = "lengthA" -> u.pendulumLengths[1]
    [] slider = "massA" -> u.pendulumMasses[1]
    [] slider = "lengthB" -> u.pendulumLengths[2]
    [] slider = "massB" -> u.pendulumMasses[2]

\* A Slider's onChange prop: setUniforms({ ...uniforms, ... }).
onChange(u, slider, v) ==
  CASE slider = "stepCount" -> [u EXCEPT !.stepCount = v]
    [] slider = "gravity" -> [u EXCEPT !.gravity = v]
    [] slider = "lengthA" ->
         [u EXCEPT !.pendulumLengths = << v, u.pendulumLengths[2] >>]
    [] slider = "massA" ->
         [u EXCEPT !.pendulumMasses = << v, u.pendulumMasses[2] >>]
    [] slider = "lengthB" ->
         [u EXCEPT !.pendulumLengths = << u.pendulumLengths[1], v >>]
    [] slider = "massB" ->
         [u EXCEPT !.pendulumMasses = << u.pendulumMasses[1], v >>]

\* Math.max(min, Math.min(max, numValue))
clampedValue(slider, numValue) ==
  LET low == SliderProps(slider).min
      high == SliderProps(slider).max
      h == numValue[2]
  IN  JsNumber(IF h < low THEN low ELSE IF h > high THEN high ELSE h)

\* handleClick's angle on one axis, for a click at k halves of the canvas
\* from its left (bottom) edge: center - size / 2 + (k / 2) * size.
clickAngle(center, size, k) ==
  IF ~IsNumber(center) \/ ~IsNumber(size) THEN JsNaN
  ELSE JsNumber(center[2] - (size[2] \div 2) + ((k * size[2]) \div 2))

\* handleShare's URLSearchParams.
shareParams(u, size, center, angles) ==
  [gravity |-> << percentEncode(toString(u.gravity)) >>,
   pendulumLengths |-> << percentEncode(join(u.pendulumLengths)) >>,
   pendulumMasses |-> << percentEncode(join(u.pendulumMasses)) >>,
   stepCount |-> << percentEncode(toString(u.stepCount)) >>,
   size |-> << percentEncode(join(size)) >>,
   center |-> << percentEncode(join(center)) >>,
   clickedAngles |->
     << percentEncode(IF angles = << >> THEN << >> ELSE join(angles[1])) >>]

(***************************************************************************)
(* SpecPage: the page is loaded from a URL; the user moves sliders, types  *)
(* into their text inputs, clicks the canvas, removes the pendulum and     *)
(* copies the share link.                                                  *)
(***************************************************************************)
MaxEdits == 1

\* A query parameter with a value.
Param(s) == << percentEncode(s) >>

\* The URL without a query.
NoQuery ==
  [gravity |-> << >>, pendulumLengths |-> << >>, pendulumMasses |-> << >>,
   stepCount |-> << >>, size |-> << >>, center |-> << >>,
   clickedAngles |-> << >>]

\* pendulumLengths of a URL: 1,1 and 0,1 and -1,2 and a single 1.
UrlLengths ==
  { << "1", ",", "1" >>, << "0", ",", "1" >>, << "-", "1", ",", "2" >>,
    << "1" >> }

\* pendulumMasses: 3,3 and 0,2.5.
UrlMasses == { << "3", ",", "3" >>, << "0", ",", "2", ".", "5" >> }

\* stepCount: 800, 0.5, -1 and a value that is no number.
UrlStepCounts ==
  { << "8", "0", "0" >>, << "0", ".", "5" >>, << "-", "1" >>, << "x" >> }

\* size: 6.28,6.28 and a single 2.
UrlSizes ==
  { << "6", ".", "2", "8", ",", "6", ".", "2", "8" >>, << "2" >> }

\* clickedAngles: absent, empty, -1,0.5 and a single 1.
UrlClickedAngles ==
  { << >>, Param(<< >>), Param(<< "-", "1", ",", "0", ".", "5" >>),
    Param(<< "1" >>) }

\* A complete, valid query.
BaseQuery ==
  [gravity |-> Param(<< "9", ".", "8", "1" >>),
   pendulumLengths |-> Param(<< "1", ",", "1" >>),
   pendulumMasses |-> Param(<< "3", ",", "3" >>),
   stepCount |-> Param(<< "8", "0", "0" >>),
   size |-> Param(<< "6", ".", "2", "8", ",", "6", ".", "2", "8" >>),
   center |-> Param(<< "1", ".", "5", ",", "-", "1" >>),
   clickedAngles |-> << >>]

\* The URLs the page is loaded from: none, the valid one, and the valid one
\* with one parameter replaced.
Queries ==
  { NoQuery, BaseQuery }
    \cup { [BaseQuery EXCEPT !.pendulumLengths = Param(l)] : l \in UrlLengths }
    \cup { [BaseQuery EXCEPT !.pendulumMasses = Param(m)] : m \in UrlMasses }
    \cup { [BaseQuery EXCEPT !.stepCount = Param(n)] : n \in UrlStepCounts }
    \cup { [BaseQuery EXCEPT !.size = Param(z)] : z \in UrlSizes }
    \cup { [BaseQuery EXCEPT !.clickedAngles = a] : a \in UrlClickedAngles }

\* What the user types into a text input: 50.5, 0, -3 and letters.
TypedTexts ==
  { << "5", "0", ".", "5" >>, << "0" >>, << "-", "3" >>, << "a", "b" >> }

\* Where a range input is dragged to: its ends and the middle.
SliderStops(slider) ==
  { SliderProps(slider).min, SliderProps(slider).max,
    (SliderProps(slider).min + SliderProps(slider).max) \div 2 }

\* Where the canvas is clicked, in halves of its width and height.
ClickPositions == { << 0, 0 >>, << 1, 2 >>, << 2, 1 >> }

\* Visualizer, PendulumCanvas and Controls render for the first time.
\* value.toFixed(precision) throws when a Slider's value is undefined.
InitPage ==
  /\ searchParams \in Queries
  /\ inputUniforms =
       ( IF parseInputUniforms(searchParams) = << >> THEN defaultUniforms
         ELSE parseInputUniforms(searchParams)[1] )
  /\ canvasSize = << JsNumber(628), JsNumber(628) >>
  /\ canvasCenter = << JsNumber(0), JsNumber(0) >>
  /\ clickedAngles = << >>
  /\ appCrashed =
       ( \E slider \in Sliders : ~IsNumber(SliderValue(inputUniforms, slider)) )
  /\ inputValues =
       [slider \in Sliders |->
          IF IsNumber(SliderValue(inputUniforms, slider))
          THEN toFixed(SliderValue(inputUniforms, slider),
                       SliderProps(slider).precision)
          ELSE << >>]
  /\ canvasEffect = IF appCrashed THEN "done" ELSE "pending"
  /\ clipboard = << >>
  /\ sharedState = << >>
  /\ editCount = 0
  /\ IdleExceptPage

\* PendulumCanvas's effect on mount: the canvas parameters of the URL.
CanvasParamsEffect ==
  /\ ~appCrashed
  /\ canvasEffect = "pending"
  /\ canvasEffect' = "done"
  /\ \E canvasParams \in { parseCanvasParams(searchParams) } :
       IF canvasParams = << >>
       THEN UNCHANGED << canvasSize, canvasCenter, clickedAngles >>
       ELSE /\ canvasSize' = canvasParams[1].size
            /\ canvasCenter' = canvasParams[1].center
            /\ clickedAngles' = canvasParams[1].clickedAngles
  /\ UNCHANGED << searchParams, inputUniforms, inputValues, appCrashed,
                  clipboard, sharedState, editCount >>
  /\ UNCHANGED exceptPage

PageReady == ~appCrashed /\ canvasEffect = "done"

\* The range input's onChange, and the effect that follows the new value.
SliderChange ==
  /\ PageReady
  /\ \E slider \in Sliders :
       \E stop \in SliderStops(slider) :
         /\ editCount < MaxEdits
         /\ JsNumber(stop) # SliderValue(inputUniforms, slider)
         /\ inputUniforms' = onChange(inputUniforms, slider, JsNumber(stop))
         /\ inputValues' =
              [inputValues EXCEPT
                 ![slider] = toFixed(JsNumber(stop),
                                     SliderProps(slider).precision)]
  /\ editCount' = editCount + 1
  /\ UNCHANGED << searchParams, canvasSize, canvasCenter, clickedAngles,
                  canvasEffect, appCrashed, clipboard, sharedState >>
  /\ UNCHANGED exceptPage

\* handleInputChange
InputChange ==
  /\ PageReady
  /\ editCount < MaxEdits
  /\ \E slider \in Sliders :
       \E text \in TypedTexts :
         inputValues' = [inputValues EXCEPT ![slider] = text]
  /\ editCount' = editCount + 1
  /\ UNCHANGED << searchParams, inputUniforms, canvasSize, canvasCenter,
                  clickedAngles, canvasEffect, appCrashed, clipboard,
                  sharedState >>
  /\ UNCHANGED exceptPage

\* handleInputBlur (also handleInputKeyDown with Enter)
InputBlur ==
  /\ PageReady
  /\ \E slider \in Sliders :
       \E numValue \in { parseFloat(inputValues[slider]) } :
         IF numValue = JsNaN
         THEN /\ inputValues' =
                   [inputValues EXCEPT
                      ![slider] = toFixed(SliderValue(inputUniforms, slider),
                                          SliderProps(slider).precision)]
              /\ UNCHANGED inputUniforms
         ELSE /\ inputUniforms' =
                   onChange(inputUniforms, slider,
                            clampedValue(slider, numValue))
              /\ inputValues' =
                   [inputValues EXCEPT
                      ![slider] = toFixed(clampedValue(slider, numValue),
                                          SliderProps(slider).precision)]
  /\ UNCHANGED << searchParams, canvasSize, canvasCenter, clickedAngles,
                  canvasEffect, appCrashed, clipboard, sharedState,
                  editCount >>
  /\ UNCHANGED exceptPage

\* handleClick(clientX, clientY)
Click ==
  /\ PageReady
  /\ \E position \in ClickPositions :
       clickedAngles' =
         << << clickAngle(canvasCenter[1], canvasSize[1], position[1]),
               clickAngle(canvasCenter[2], canvasSize[2], position[2]) >> >>
  /\ UNCHANGED << searchParams, inputUniforms, canvasSize, canvasCenter,
                  inputValues, canvasEffect, appCrashed, clipboard,
                  sharedState, editCount >>
  /\ UNCHANGED exceptPage

\* handleRemove
Remove ==
  /\ PageReady
  /\ clickedAngles # << >>
  /\ clickedAngles' = << >>
  /\ UNCHANGED << searchParams, inputUniforms, canvasSize, canvasCenter,
                  inputValues, canvasEffect, appCrashed, clipboard,
                  sharedState, editCount >>
  /\ UNCHANGED exceptPage

\* handleShare, the first time the link is copied.
Share ==
  /\ PageReady
  /\ clipboard = << >>
  /\ clipboard' =
       << shareParams(inputUniforms, canvasSize, canvasCenter,
                      clickedAngles) >>
  /\ sharedState' =
       << [uniforms |-> inputUniforms, size |-> canvasSize,
           center |-> canvasCenter, clickedAngles |-> clickedAngles] >>
  /\ UNCHANGED << searchParams, inputUniforms, canvasSize, canvasCenter,
                  clickedAngles, inputValues, canvasEffect, appCrashed,
                  editCount >>
  /\ UNCHANGED exceptPage

NextPage ==
  \/ CanvasParamsEffect
  \/ SliderChange
  \/ InputChange
  \/ InputBlur
  \/ Click
  \/ Remove
  \/ Share

SpecPage == InitPage /\ [][NextPage]_vars

(***************************************************************************)
(* The page's properties (SpecPage)                                        *)
(***************************************************************************)
IsPositive(v) == IsNumber(v) /\ v[2] > 0

\* C16: the lengths and masses the page hands to the shader and to
\* createPendulums are positive, whether they came from a slider, a text
\* input or the URL.
C16_PairsArePositive ==
  ~appCrashed =>
    \A i \in 1 .. 2 :
      /\ IsPositive(inputUniforms.pendulumLengths[i])
      /\ IsPositive(inputUniforms.pendulumMasses[i])

\* C17: the stepCount the page hands to the field evaluator is an integer
\* that is at least 1.
C17_StepCountIsPositiveInteger ==
  ~appCrashed =>
    /\ IsNumber(inputUniforms.stepCount)
    /\ inputUniforms.stepCount[2] % 100 = 0
    /\ inputUniforms.stepCount[2] >= 100

\* C20: parsing the URL that handleShare copied gives back the uniforms,
\* size, center and clickedAngles it was made from.
C20_SharedUrlRoundTrips ==
  clipboard # << >> =>
    /\ parseInputUniforms(clipboard[1]) = << sharedState[1].uniforms >>
    /\ parseCanvasParams(clipboard[1]) =
         << [size |-> sharedState[1].size,
             center |-> sharedState[1].center,
             clickedAngles |-> sharedState[1].clickedAngles] >>

(***************************************************************************)
(* The samples of an audio chunk (SpecSample)                              *)
(*                                                                         *)
(* An angle is a whole number of the unit pi / UnitsPerPi, positive or     *)
(* negative; a sample is an exact fraction.                                *)
(***************************************************************************)
UnitsPerPi == 4

\* JavaScript's %: the remainder has the sign of the dividend.
remainder(a, b) == IF a >= 0 THEN a % b ELSE 0 - ((0 - a) % b)

\* angleToSample(angle): (angle % (2 * Math.PI)) / Math.PI - 1.0
angleToSample(angle) ==
  FracSub(Frac(remainder(angle, 2 * UnitsPerPi), UnitsPerPi), Frac(1, 1))

\* The linear map of angle mod 2 pi (in [0, 2 pi)) onto [-1, 1).
linearSample(angle) ==
  FracSub(Frac(angle % (2 * UnitsPerPi), UnitsPerPi), Frac(1, 1))

MaxAngleUnits == 8

MaxChunkStates == 2

\* The angles of a state of the simulator.
ChunkAngles == (0 - MaxAngleUnits) .. MaxAngleUnits

\* By how much a step() moves an angle.
ChunkDeltas == { -1, 0, 1 }

\* states.push(simulatorRef.current.getState()) after the warm-up.  The
\* simulator starts wherever the canvas was clicked.
InitSample ==
  /\ chunkStates \in { << pair >> : pair \in ChunkAngles \X ChunkAngles }
  /\ chunkLeft = << >>
  /\ chunkRight = << >>
  /\ IdleExceptSample

\* const newState = simulatorRef.current.step(); states.push(newState)
ChunkStep ==
  /\ chunkLeft = << >>
  /\ Len(chunkStates) < MaxChunkStates
  /\ \E d1 \in ChunkDeltas, d2 \in ChunkDeltas :
       chunkStates' =
         Append(chunkStates,
                << chunkStates[Len(chunkStates)][1] + d1,
                   chunkStates[Len(chunkStates)][2] + d2 >>)
  /\ UNCHANGED << chunkLeft, chunkRight >>
  /\ UNCHANGED exceptSample

\* left = states.map((state) => angleToSample(state[0].angle)), and right.
ChunkMap ==
  /\ chunkLeft = << >>
  /\ chunkLeft' =
       << [i \in DOMAIN chunkStates |-> angleToSample(chunkStates[i][1])] >>
  /\ chunkRight' =
       << [i \in DOMAIN chunkStates |-> angleToSample(chunkStates[i][2])] >>
  /\ UNCHANGED chunkStates
  /\ UNCHANGED exceptSample

NextSample == ChunkStep \/ ChunkMap

SpecSample == InitSample /\ [][NextSample]_vars

InUnitRange(x) == ~FracLess(x, Frac(-1, 1)) /\ ~FracLess(Frac(1, 1), x)

\* C19: every sample of a chunk lies in [-1, 1] and is the linear map of
\* its angle mod 2 pi onto [-1, 1), for negative angles too.
C19_SamplesInUnitRange ==
  chunkLeft # << >> =>
    \A i \in DOMAIN chunkStates :
      /\ InUnitRange(chunkLeft[1][i])
      /\ InUnitRange(chunkRight[1][i])
      /\ FracEq(chunkLeft[1][i], linearSample(chunkStates[i][1]))
      /\ FracEq(chunkRight[1][i], linearSample(chunkStates[i][2]))

(***************************************************************************)
(* The colour of a pixel (SpecField)                                       *)
(***************************************************************************)
\* C18: the colour main() writes for a pixel is defined: no NaN reaches
\* fragColor, also when the angle differences are (0, 0) or not finite.
C18_ColourIsDefined == frag.pc = "done" => frag.fragColor # "nan"

\* The parameters of the URL that are pairs.
TupleParams ==
  { "pendulumLengths", "pendulumMasses", "size", "center", "clickedAngles" }

\* C30: parseTuple returns null or a pair of two numbers, neither undefined
\* nor null nor NaN, for each pair the URL carries.
C30_ParseTupleIsComplete ==
  \A name \in TupleParams :
    \/ parseTuple(get(searchParams, name)) = << >>
    \/ /\ IsNumber(parseTuple(get(searchParams, name))[1][1])
       /\ IsNumber(parseTuple(get(searchParams, name))[1][2])

Infinity == -3

OrbitPeriods ==
  { 50, 102, 150, 4511, 4512, 5000, 10000, 20000, 30000, 40000, 44100,
    44101 }

Orbits ==
  { [kind |-> "periodic", period |-> p] : p \in OrbitPeriods }
    \cup { [kind |-> k, period |-> 0] : k \in { "diverging", "rest", "nan" } }

\* pendulumPairDistance(a, b), a and b being points of the orbit
pendulumPairDistance(orbit, a, b) ==
  LET apart == IF a < b THEN b - a ELSE a - b IN
  IF orbit.kind = "nan" THEN NaN
  ELSE IF orbit.kind = "rest" THEN 0
  ELSE IF orbit.kind = "diverging" THEN apart
  ELSE LET r == apart % orbit.period
       IN  IF r < orbit.period - r THEN r ELSE orbit.period - r

\* pendulumPairDistance(newState, states[0]) < minDistance * 1.01
closeToStart(distance, minDistance) ==
  IF distance = NaN \/ minDistance = NaN THEN FALSE
  ELSE IF minDistance = Infinity THEN TRUE
  ELSE 100 * distance < 101 * minDistance

\* The loop that collects minSamples samples: the minDistance it ends with,
\* the least of the samples' distances (no NaN is less than minDistance).
collectSamples(orbit) ==
  LET seen ==
        { pendulumPairDistance(orbit, warmupSteps + n, warmupSteps) :
            n \in 1 .. minSamples } \ { NaN }
  IN  IF seen = {} THEN Infinity
      ELSE CHOOSE m \in seen : \A d \in seen : m <= d

\* generateAudioChunk(maxSeconds) has been called.
InitSearch ==
  /\ searchOrbit \in Orbits
  /\ generator = [pc |-> "start", i |-> 0, steps |-> 0, states |-> 0,
                  minDistance |-> Infinity, loopFound |-> FALSE]
  /\ IdleExceptSearch

\* The call up to its first await: the warm-up steps, the reference state,
\* the minSamples samples, and the await of iteration 0 of the search.
SearchBegins ==
  /\ generator.pc = "start"
  /\ generator' =
       [pc |-> "await", i |-> 0, steps |-> warmupSteps + minSamples,
        states |-> 1 + minSamples,
        minDistance |-> collectSamples(searchOrbit),
        loopFound |-> FALSE]
  /\ UNCHANGED searchOrbit
  /\ UNCHANGED exceptSearch

\* The timeout of the await fires: the search runs on from iteration i to
\* the break, to its bound, or to the next iteration with i % 4410 = 0.
SearchContinues ==
  /\ generator.pc = "await"
  /\ LET first == generator.i
         last == IF first + yieldInterval < searchLimit
                   THEN first + yieldInterval
                   ELSE searchLimit
         breaks ==
           { k \in first .. (last - 1) :
               closeToStart(
                 pendulumPairDistance(searchOrbit,
                                      warmupSteps + minSamples + k + 1,
                                      warmupSteps),
                 generator.minDistance) }
     IN  IF breaks # {}
           THEN LET k == CHOOSE b \in breaks : \A c \in breaks : b <= c
                IN  generator' =
                      [generator EXCEPT
                         !.pc = "done", !.i = k,
                         !.steps = warmupSteps + minSamples + k + 1,
                         !.states = 1 + minSamples + k,
                         !.loopFound = TRUE]
           ELSE generator' =
                  [generator EXCEPT
                     !.pc = IF last < searchLimit THEN "await" ELSE "done",
                     !.i = last,
                     !.steps = warmupSteps + minSamples + last,
                     !.states = 1 + minSamples + last]
  /\ UNCHANGED searchOrbit
  /\ UNCHANGED exceptSearch

NextSearch == SearchBegins \/ SearchContinues

SpecSearch == InitSearch /\ [][NextSearch]_vars

\* The timeouts of the awaits fire.
SpecSearchFair == SpecSearch /\ WF_vars(NextSearch)

\* The distance of state n of the chunk (state 0 is the reference state)
\* to the reference state.
DistanceOfState(n) ==
  pendulumPairDistance(searchOrbit, warmupSteps + n, warmupSteps)

SearchIsBounded ==
  /\ generator.pc # "start" => generator.states >= minSamples + 1
  /\ generator.states <= sampleRate * maxSeconds
  /\ generator.pc # "start" =>
       generator.steps =
         warmupSteps + generator.states - 1
           + (IF generator.loopFound THEN 1 ELSE 0)
  /\ generator.pc = "done" =>
       \E least \in { collectSamples(searchOrbit) } :
         /\ \A n \in (minSamples + 1) .. (generator.states - 1) :
              ~closeToStart(DistanceOfState(n), least)
         /\ generator.loopFound =>
              closeToStart(DistanceOfState(generator.states), least)
         /\ ~generator.loopFound =>
              generator.states = sampleRate * maxSeconds

\* C23: generateAudioChunk ends; it discards warmupSteps steps, keeps at
\* least minSamples + 1 and at most sampleRate * maxSeconds states, stops at
\* the first state after the samples that is closer to the reference state
\* than 1.01 times the least distance among the samples, and reports
\* loopFound exactly when it stopped there.
C23_GenerationIsBounded ==
  /\ []SearchIsBounded
  /\ <>(generator.pc = "done")

\* A loop was found after the search had awaited at least twice.
C23_Witness ==
  /\ generator.pc = "done"
  /\ generator.loopFound
  /\ generator.i > yieldInterval

\* C29: the gain of the playing source is gainLevel of the current isMuted
\* and isStatic, and after a click on the mute button the stored preference
\* is the current isMuted.
C29_GainFollowsMute ==
  /\ gainRef # << >> => gainRef[1].value = gainLevel(isMuted, isStatic)
  /\ muteToggles > 0 => localStorage = << booleanString(isMuted) >>

(***************************************************************************)
(* PendulumCanvas under the mouse (SpecPointer)                            *)
(*                                                                         *)
(* A handler sees the size, center, isDragging and lastMousePos of the     *)
(* render that created it; setState calls and functional updates act on    *)
(* the latest state.  A render after mousedown or mouseup is flushed with  *)
(* the event; a render after mousemove or wheel is scheduled, and further  *)
(* events may be handled before it.  Coordinates are exact fractions.      *)
(***************************************************************************)
MaxPointerEvents == 6

MaxWheels == 2

RECURSIVE Gcd(_, _)
Gcd(a, b) == IF b = 0 THEN a ELSE Gcd(b, a % b)

\* A fraction in lowest terms.
Reduce(a) ==
  LET n == IF a[1] < 0 THEN 0 - a[1] ELSE a[1]
      g == Gcd(n, a[2])
  IN  IF g = 0 THEN a ELSE << a[1] \div g, a[2] \div g >>

\* +, -, * and / of the handlers, each result in lowest terms.
Plus(a, b) == Reduce(FracAdd(a, b))

Minus(a, b) == Reduce(FracSub(a, b))

Times(a, b) == Reduce(FracMul(a, b))

Over(a, b) == Reduce(FracDiv(a, b))

\* canvas.getBoundingClientRect()
canvasRect == [left |-> 0, top |-> 0, width |-> 4, height |-> 2]

\* Where the mouse can be: two points of the canvas, and a point of the
\* Controls panel that lies over it.
PointerPlaces ==
  { [clientX |-> 1, clientY |-> 1, target |-> "canvas"],
    [clientX |-> 3, clientY |-> 0, target |-> "canvas"],
    [clientX |-> 0, clientY |-> 0, target |-> "controls"] }

\* normalizedX, normalizedY of handleWheel
normalizedMouse(rect, e) ==
  << Reduce(Frac(e.clientX - rect.left, rect.width)),
     Reduce(Frac(rect.height - (e.clientY - rect.top), rect.height)) >>

\* center - size / 2 + normalized * size
worldMouse(centerOf, sizeOf, normalized) ==
  << Plus(Minus(centerOf[1], Over(sizeOf[1], Frac(2, 1))),
          Times(normalized[1], sizeOf[1])),
     Plus(Minus(centerOf[2], Over(sizeOf[2], Frac(2, 1))),
          Times(normalized[2], sizeOf[2])) >>

\* const zoomFactor = e.deltaY > 0 ? 10 / 9 : 9 / 10
zoomFactor(deltaY) == IF deltaY > 0 THEN Frac(10, 9) ELSE Frac(9, 10)

\* handleWheel: the size and the center it sets.  closure is the state the
\* handler closed over, prevSize the argument of the functional update.
handleWheel(closure, prevSize, rect, e) ==
  LET normalized == normalizedMouse(rect, e)
      world == worldMouse(closure.center, closure.size, normalized)
      newSize == << Times(prevSize[1], zoomFactor(e.deltaY)),
                    Times(prevSize[2], zoomFactor(e.deltaY)) >>
      newWorld == worldMouse(closure.center, newSize, normalized)
  IN  [size |-> newSize,
       center |->
         << Plus(closure.center[1], Minus(world[1], newWorld[1])),
            Plus(closure.center[2], Minus(world[2], newWorld[2])) >>]

\* handleClick(clientX, clientY): the angles it passes to setClickedAngles
handleClick(closure, rect, clientX, clientY) ==
  LET bottomLeftCorner ==
        << Minus(closure.center[1], Over(closure.size[1], Frac(2, 1))),
           Minus(closure.center[2], Over(closure.size[2], Frac(2, 1))) >>
      radiansFromBottomLeft ==
        << Times(Over(Minus(clientX, Frac(rect.left, 1)),
                      Frac(rect.width, 1)),
                 closure.size[1]),
           Times(Over(Minus(Frac(rect.top + rect.height, 1), clientY),
                      Frac(rect.height, 1)),
                 closure.size[2]) >>
  IN  << Plus(bottomLeftCorner[1], radiansFromBottomLeft[1]),
         Plus(bottomLeftCorner[2], radiansFromBottomLeft[2]) >>

\* handleMouseMove past its guard: the center it sets
handleMouseMove(closure, rect, e) ==
  LET deltaX == Reduce(Frac(e.clientX - closure.lastMousePos[1], rect.width))
      deltaY ==
        Reduce(Frac(e.clientY - closure.lastMousePos[2], rect.height))
      worldDeltaX == Times(Frac(0 - deltaX[1], deltaX[2]), closure.size[1])
      worldDeltaY == Times(deltaY, closure.size[2])
  IN  << Plus(closure.center[1], worldDeltaX),
         Plus(closure.center[2], worldDeltaY) >>

\* The state that the handlers of a render close over.
Closure(sizeOf, centerOf, dragging, mousePos) ==
  [size |-> sizeOf, center |-> centerOf, isDragging |-> dragging,
   lastMousePos |-> mousePos]

\* The canvas after its first render and its effects, the mouse somewhere.
InitPointer ==
  /\ sizeState = << Reduce(TwoPi), Reduce(TwoPi) >>
  /\ centerState = << Frac(0, 1), Frac(0, 1) >>
  /\ isDragging = FALSE
  /\ wasDragged = FALSE
  /\ lastMousePos = << 0, 0 >>
  /\ droppedAngles = << >>
  /\ listeners =
       Closure(<< Reduce(TwoPi), Reduce(TwoPi) >>,
               << Frac(0, 1), Frac(0, 1) >>, FALSE, << 0, 0 >>)
  /\ pointer \in PointerPlaces
  /\ leftButton = "up"
  /\ movedSincePress = FALSE
  /\ pannedWhileUp = FALSE
  /\ lastWheel = << >>
  /\ lastRelease = << >>
  /\ pointerEvents = 0
  /\ IdleExceptPointer

\* The left button goes down.  On the canvas, handleMouseDown runs and the
\* render that follows it attaches new handlers.
MouseDown ==
  /\ leftButton = "up"
  /\ pointerEvents < MaxPointerEvents
  /\ pointerEvents' = pointerEvents + 1
  /\ leftButton' = "down"
  /\ movedSincePress' = FALSE
  /\ IF pointer.target = "canvas"
       THEN /\ isDragging' = TRUE
            /\ lastMousePos' = << pointer.clientX, pointer.clientY >>
            /\ listeners' =
                 Closure(sizeState, centerState, TRUE,
                         << pointer.clientX, pointer.clientY >>)
       ELSE UNCHANGED << isDragging, lastMousePos, listeners >>
  /\ UNCHANGED << sizeState, centerState, wasDragged, droppedAngles, pointer,
                  pannedWhileUp, lastWheel, lastRelease >>
  /\ UNCHANGED exceptPointer

\* The mouse moves; the listener of the document runs handleMouseMove.
MouseMove ==
  /\ pointerEvents < MaxPointerEvents
  /\ pointerEvents' = pointerEvents + 1
  /\ \E e \in PointerPlaces \ { pointer } :
       /\ pointer' = e
       /\ IF listeners.isDragging
            THEN /\ wasDragged' = TRUE
                 /\ centerState' = handleMouseMove(listeners, canvasRect, e)
                 /\ lastMousePos' = << e.clientX, e.clientY >>
                 /\ movedSincePress' = (leftButton = "down")
                 /\ pannedWhileUp' = (pannedWhileUp \/ leftButton = "up")
            ELSE UNCHANGED << wasDragged, centerState, lastMousePos,
                              movedSincePress, pannedWhileUp >>
  /\ UNCHANGED << sizeState, isDragging, droppedAngles, listeners,
                  leftButton, lastWheel, lastRelease >>
  /\ UNCHANGED exceptPointer

\* The left button goes up.  On the canvas, handleMouseUp runs:
\* setIsDragging(false), the update of wasDragged that calls
\* handleMouseClick when it was false, and the render that follows.
MouseUp ==
  /\ leftButton = "down"
  /\ pointerEvents < MaxPointerEvents
  /\ pointerEvents' = pointerEvents + 1
  /\ leftButton' = "up"
  /\ IF pointer.target = "canvas"
       THEN /\ isDragging' = FALSE
            /\ wasDragged' = FALSE
            /\ droppedAngles' =
                 IF wasDragged
                   THEN droppedAngles
                   ELSE << handleClick(listeners, canvasRect,
                                       Frac(pointer.clientX, 1),
                                       Frac(pointer.clientY, 1)) >>
            /\ listeners' =
                 Closure(sizeState, centerState, FALSE, lastMousePos)
            /\ lastRelease' =
                 << [placed |-> ~wasDragged, moved |-> movedSincePress] >>
       ELSE UNCHANGED << isDragging, wasDragged, droppedAngles, listeners,
                         lastRelease >>
  /\ UNCHANGED << sizeState, centerState, lastMousePos, pointer,
                  movedSincePress, pannedWhileUp, lastWheel >>
  /\ UNCHANGED exceptPointer

\* The wheel turns over the canvas; lastWheel keeps the point of the plane
\* under the mouse before and after.
Wheel ==
  /\ pointer.target = "canvas"
  /\ pointerEvents < MaxPointerEvents
  /\ IF lastWheel = << >> THEN TRUE ELSE lastWheel[1].wheels < MaxWheels
  /\ \E deltaY \in { -1, 1 } :
       \E set \in { handleWheel(listeners, sizeState, canvasRect,
                                [clientX |-> pointer.clientX,
                                 clientY |-> pointer.clientY,
                                 deltaY |-> deltaY]) } :
         /\ sizeState' = set.size
         /\ centerState' = set.center
         /\ lastWheel' =
              << [before |->
                    worldMouse(centerState, sizeState,
                               normalizedMouse(canvasRect, pointer)),
                  after |->
                    worldMouse(set.center, set.size,
                               normalizedMouse(canvasRect, pointer)),
                  wheels |-> IF lastWheel = << >> THEN 1
                             ELSE lastWheel[1].wheels + 1] >>
  /\ pointerEvents' = pointerEvents + 1
  /\ UNCHANGED << isDragging, wasDragged, lastMousePos, droppedAngles,
                  listeners, pointer, leftButton, movedSincePress,
                  pannedWhileUp, lastRelease >>
  /\ UNCHANGED exceptPointer

\* The render that a mousemove or a wheel event scheduled: the effect
\* removes the listeners and attaches the handlers of this render.
Rerender ==
  /\ listeners # Closure(sizeState, centerState, isDragging, lastMousePos)
  /\ listeners' = Closure(sizeState, centerState, isDragging, lastMousePos)
  /\ UNCHANGED << sizeState, centerState, isDragging, wasDragged,
                  lastMousePos, droppedAngles, pointer, leftButton,
                  movedSincePress, pannedWhileUp, lastWheel, lastRelease,
                  pointerEvents >>
  /\ UNCHANGED exceptPointer

NextPointer == MouseDown \/ MouseMove \/ MouseUp \/ Wheel \/ Rerender

SpecPointer == InitPointer /\ [][NextPointer]_vars

\* C22: after a wheel event the point of the plane under the mouse is the
\* point that was under it before the event.
C22_WheelKeepsPointUnderMouse ==
  lastWheel # << >> =>
    /\ FracEq(lastWheel[1].before[1], lastWheel[1].after[1])
    /\ FracEq(lastWheel[1].before[2], lastWheel[1].after[2])

\* C26: a release of the left button on the canvas places a pendulum exactly
\* when handleMouseMove did not pan between the press and the release.
C26_ClickIffNotDragged ==
  lastRelease # << >> => (lastRelease[1].placed <=> ~lastRelease[1].moved)

\* C27: isDragging is true only while the left button is down, and no
\* mouse move pans while it is up.
C27_PanningOnlyWhileHeld ==
  /\ isDragging => leftButton = "down"
  /\ ~pannedWhileUp

\* DoublePendulum's firstNode: the pixel of the pivot
firstNode(startingAngles, windowSize, canvasSizeOf, canvasCenterOf) ==
  LET pixelsPerRadianX == Over(windowSize[1], canvasSizeOf[1])
      pixelsPerRadianY == Over(windowSize[2], canvasSizeOf[2])
      bottomLeftCorner ==
        << Minus(canvasCenterOf[1], Over(canvasSizeOf[1], Frac(2, 1))),
           Minus(canvasCenterOf[2], Over(canvasSizeOf[2], Frac(2, 1))) >>
      radiansFromBottomLeft ==
        << Minus(startingAngles[1], bottomLeftCorner[1]),
           Minus(startingAngles[2], bottomLeftCorner[2]) >>
      pixelsFromBottomLeft ==
        << Times(pixelsPerRadianX, radiansFromBottomLeft[1]),
           Times(pixelsPerRadianY, radiansFromBottomLeft[2]) >>
  IN  [x |-> pixelsFromBottomLeft[1],
       y |-> Minus(windowSize[2], pixelsFromBottomLeft[2])]

\* The middle, in client coordinates, of the pixel that main() is evaluating:
\* the drawing buffer is shown over the whole of the canvas, whose rectangle
\* is the window.
PixelMiddle ==
  << Over(Times(FragCoord(frag.pixel)[1], fullUniforms.resolution[1]),
          Frac(canvas.width, 1)),
     Minus(fullUniforms.resolution[2],
           Over(Times(FragCoord(frag.pixel)[2], fullUniforms.resolution[2]),
                Frac(canvas.height, 1))) >>

ClickedAtPixelMiddle ==
  handleClick([size |-> fullUniforms.size, center |-> fullUniforms.center],
              [left |-> 0, top |-> 0,
               width |-> Truncate(fullUniforms.resolution[1]),
               height |-> Truncate(fullUniforms.resolution[2])],
              PixelMiddle[1], PixelMiddle[2])

\* C28: the angles of a click in the middle of a pixel are the starting
\* angles main() uses for that pixel, and DoublePendulum puts the pivot of
\* the dropped pendulum where the click was.
C28_ClickAnglesAreStartingAngles ==
  frag.pc \in { "loop", "done" } =>
    /\ \A k \in { 1, 2 } :
         FracEq(ClickedAtPixelMiddle[k],
                Plus(Times(frag.uv[k], glUniforms.size[k]),
                     glUniforms.center[k]))
    /\ FracEq(firstNode(ClickedAtPixelMiddle, fullUniforms.resolution,
                        fullUniforms.size, fullUniforms.center).x,
              PixelMiddle[1])
    /\ FracEq(firstNode(ClickedAtPixelMiddle, fullUniforms.resolution,
                        fullUniforms.size, fullUniforms.center).y,
              PixelMiddle[2])

(***************************************************************************)
(* PendulumCanvas's scheduled renders (SpecRender)                         *)
(*                                                                         *)
(* A value of fullUniforms (with the lowResScaleFactor of scheduleRenders) *)
(* is known by its version, the number of changes before it.  The browser  *)
(* keeps the animation frame callbacks in the order of their requests and  *)
(* runs, at a frame, all that are pending.                                 *)
(***************************************************************************)
MaxUniformsChanges == 3

\* The callback that scheduleRenders requests at once.
lowResCallback(handle, version) ==
  [handle |-> handle, kind |-> "low", version |-> version]

\* Faulty variant: the callback of the timeout renders downscaled.
fullResCallbackDownscaled(handle, version) ==
  [handle |-> handle, kind |-> "low", version |-> version]

\* The callback that the timeout of scheduleRenders requests.
fullResCallback(handle, version) ==
  [handle |-> handle, kind |-> "full", version |-> version]

\* cancelAnimationFrame(handle) on the ordered callbacks, handle being 0
\* for a null ref
cancelFrameCallback(callbacks, handle) ==
  SelectSeq(callbacks, LAMBDA c : c.handle # handle)

\* clearTimeout(id), id being 0 for a null ref
clearTimeout(timeouts, id) == { t \in timeouts : t.id # id }

\* One callback runs.  Those of scheduleRenders set the uniforms, the canvas
\* size and the viewport; all end with render(), which draws with the
\* uniforms of the program and sets animationFrameRef.current to null.
runCallback(callback, st, current) ==
  LET program ==
        IF callback.kind = "setup" THEN st.glProgram
        ELSE << [kind |-> callback.kind, version |-> callback.version] >>
  IN  [glProgram |-> program,
       lastRender |-> program,
       lowDone |-> IF callback.kind = "low"
                     THEN st.lowDone \cup { callback.version }
                     ELSE st.lowDone,
       staleRan |-> (st.staleRan
                       \/ (callback.kind # "setup"
                             /\ callback.version < current)),
       fullBeforeLow |-> (st.fullBeforeLow
                            \/ (callback.kind = "full"
                                  /\ callback.version \notin st.lowDone))]

RECURSIVE runCallbacks(_, _, _)
runCallbacks(callbacks, st, current) ==
  IF callbacks = << >> THEN st
  ELSE runCallbacks(Tail(callbacks),
                    runCallback(Head(callbacks), st, current), current)

\* fullUniforms has become non-null and the effects have run: the WebGL
\* setup (initGL sets the uniforms; a frame is requested for render()) and
\* the first scheduleRenders.
InitRender ==
  /\ uniformsVersion = 0
  /\ glProgram = << [kind |-> "full", version |-> 0] >>
  /\ frameCallbacks =
       << [handle |-> 1, kind |-> "setup", version |-> 0],
          lowResCallback(2, 0) >>
  /\ renderTimeouts = { [id |-> 3, version |-> 0] }
  /\ canvasFrameRef = 2
  /\ fullRenderTimeoutRef = 3
  /\ nextRenderId = 4
  /\ lastRender = << >>
  /\ lowDone = {}
  /\ staleRan = FALSE
  /\ fullBeforeLow = FALSE
  /\ IdleExceptRender

\* fullUniforms (or lowResScaleFactor) changes and the render commits: the
\* cleanup of the re-render effect, then the effect with scheduleRenders.
UniformsChange ==
  /\ uniformsVersion < MaxUniformsChanges
  /\ uniformsVersion' = uniformsVersion + 1
  /\ frameCallbacks' =
       Append(cancelFrameCallback(frameCallbacks, canvasFrameRef),
              lowResCallback(nextRenderId, uniformsVersion + 1))
  /\ renderTimeouts' =
       clearTimeout(renderTimeouts, fullRenderTimeoutRef)
         \cup { [id |-> nextRenderId + 1, version |-> uniformsVersion + 1] }
  /\ canvasFrameRef' = nextRenderId
  /\ fullRenderTimeoutRef' = nextRenderId + 1
  /\ nextRenderId' = nextRenderId + 2
  /\ UNCHANGED << glProgram, lastRender, lowDone, staleRan, fullBeforeLow >>
  /\ UNCHANGED exceptRender

\* A timeout of 250 ms fires: it requests the frame of the full-resolution
\* render and keeps its handle in animationFrameRef.
FullRenderTimeout ==
  /\ \E t \in renderTimeouts :
       /\ renderTimeouts' = renderTimeouts \ { t }
       /\ frameCallbacks' =
            Append(frameCallbacks, fullResCallback(nextRenderId, t.version))
  /\ canvasFrameRef' = nextRenderId
  /\ nextRenderId' = nextRenderId + 1
  /\ UNCHANGED << uniformsVersion, fullRenderTimeoutRef, glProgram,
                  lastRender, lowDone, staleRan, fullBeforeLow >>
  /\ UNCHANGED exceptRender

\* An animation frame: the pending callbacks run in the order of their
\* requests.
AnimationFrame ==
  /\ frameCallbacks # << >>
  /\ \E st \in { runCallbacks(frameCallbacks,
                              [glProgram |-> glProgram,
                               lastRender |-> lastRender,
                               lowDone |-> lowDone,
                               staleRan |-> staleRan,
                               fullBeforeLow |-> fullBeforeLow],
                              uniformsVersion) } :
       /\ glProgram' = st.glProgram
       /\ lastRender' = st.lastRender
       /\ lowDone' = st.lowDone
       /\ staleRan' = st.staleRan
       /\ fullBeforeLow' = st.fullBeforeLow
  /\ frameCallbacks' = << >>
  /\ canvasFrameRef' = 0
  /\ UNCHANGED << uniformsVersion, fullRenderTimeoutRef, renderTimeouts,
                  nextRenderId >>
  /\ UNCHANGED exceptRender

NextRender == UniformsChange \/ FullRenderTimeout \/ AnimationFrame

SpecRender == InitRender /\ [][NextRender]_vars

\* The page is visible: frames come and timeouts fire.
SpecRenderFair ==
  /\ SpecRender
  /\ WF_vars(FullRenderTimeout)
  /\ WF_vars(AnimationFrame)

\* C24: no render that was scheduled for an earlier value of the uniforms
\* runs after the uniforms have changed.
C24_NoStaleRender == ~staleRan

\* C25: in the end the canvas shows the full-resolution render of the latest
\* uniforms for good, and no full-resolution render of scheduleRenders runs
\* before the low-resolution render of the same uniforms.
C25_FullResolutionInTheEnd ==
  /\ []~fullBeforeLow
  /\ <>[](lastRender = << [kind |-> "full", version |-> uniformsVersion] >>)

\* The uniforms have changed, and the canvas shows the full-resolution
\* render of the latest ones after their low-resolution render.
C25_Witness ==
  /\ uniformsVersion > 0
  /\ lastRender = << [kind |-> "full", version |-> uniformsVersion] >>
  /\ uniformsVersion \in lowDone
  /\ renderTimeouts = {}
  /\ frameCallbacks = << >>

=============================================================================
